---- MODULE Spec2Model ----
(***************************************************************************)
(* A model of the core of the DBSP trace machinery:                        *)
(*   - trace/layers/mod.rs          advance (exponential search)           *)
(*   - trace/layers/ordered_leaf.rs OrderedLeaf, its merge builder, its    *)
(*                                  unordered tuple builder                *)
(*   - trace/ord/indexed_zset_batch.rs  the fueled Merger                  *)
(*   - trace/spine_fueled.rs        the Spine                              *)
(*                                                                         *)
(* A leaf is a sequence of <<key, weight>> pairs.  A batch is modelled by  *)
(* the leaf of its (tuple, weight) entries: the spine reads a batch only   *)
(* through len(), is_empty(), begin_merge() and the Merger.                *)
(*                                                                         *)
(* Machine integers are unbounded here; the values the model reaches stay  *)
(* far below 2^31, except isize::MAX, which is carried as a flag (see      *)
(* IsizeMax), and the shifts whose amount may reach the word width, which  *)
(* are modelled by machine rule (see ShlAssign, FuelFor).                  *)
(***************************************************************************)
EXTENDS Integers, Sequences, FiniteSets, TLC

VARIABLES
    \* ---- the build ----
    overflow_checks,   \* TRUE: a build with overflow checks (debug, tests)
    \* ---- Spine ----
    merging,           \* Spine.merging: the level slots, level k at index k+1
    effort,            \* Spine.effort
    cursor_storage,    \* Spine.cursor_storage: batches of the last cursor()
    inserted,          \* history: the weight-wise sum of all inserted batches
    panic,             \* "" or the message of the panic that ended the program
    phase,             \* "live" | "consolidated" (consolidate consumes the spine)
    inserts,           \* history: the number of insert calls so far
    result,            \* the Option<Batch> consolidate() returned
    \* ---- leaf algebra (pure functions applied to drawn inputs) ----
    leaf1, leaf2, leaf3,
    leaf_op,           \* the operation applied, "" before
    leaf_out,          \* its outcome
    \* ---- advance ----
    slice_len,         \* length of the slice
    prefix_len,        \* number of leading elements satisfying the predicate
    adv_out,           \* outcome of advance
    \* ---- UnorderedLeafBuilder ----
    builder_vals,      \* UnorderedLeafBuilder.vals
    boundary,          \* UnorderedLeafBuilder.boundary
    pushed,            \* history: every tuple pushed, in push order
    sectioned,         \* history: boundary() was called before done()
    built,             \* the leaf done() returned, or NotBuilt
    \* ---- Spine: bounds, flags and the scheduler ----
    self_lower,        \* Spine.lower: an antichain of times
    self_upper,        \* Spine.upper
    dirty,             \* Spine.dirty
    activator,         \* Spine.activator is Some(_)
    activated,         \* history: activate() calls made by the last operation
    effort_arg,        \* history: the effort handed to with_effort
    nonempty_since,    \* history: a non-empty batch was inserted since
                       \* construction or the last clear_dirty_flag
    steps,             \* history: [on, log], the calls the last operation made
                       \* inside the Spine where `on` is set
    last_op,           \* history: the last operation on the Spine, kept in
                       \* the specifications that read it ("off" elsewhere)
    rounds,            \* history: exert calls made by consolidate
    \* ---- a SpineCursor kept by the caller ----
    held,              \* the cursor, with history: mutated since it was made
    seen,              \* outcome of the last key() on the held cursor
    \* ---- OrderedLeafCursor ----
    cur_storage,       \* the leaf the cursor walks
    leaf_cursor,       \* OrderedLeafCursor: [pos, bounds]
    cur_op,            \* history: the last operation
    cur_before,        \* history: the cursor before the last operation
    cur_key,           \* history: the key of the last seek
    cur_ops,           \* history: the number of operations so far
    cur_panic,         \* "" or the panic that ended the program
    \* ---- OrdIndexedZSetMerger::work ----
    work_fuel,         \* *fuel on entry
    work_out,          \* outcome of the call
    \* ---- Stream::integrate (one Z1 feedback and one Plus) ----
    int_kind,          \* the type D of the stream: "scalar" | "zset" ("" idle)
    int_z1,            \* the value held by the delayed feedback
    int_out,           \* the integral's output at the last step: [ok, val]
    int_fed,           \* history: the inputs of the steps so far
    \* ---- Stream::integrate_nested (one nested delay and one Plus) ----
    nest_values,       \* the nested delay: the value kept per child index
    nest_timestamp,    \* the nested delay: the child index of the next step
    nest_rows,         \* history: per parent step, the inputs of its child steps
    nest_outs,         \* history: per parent step, the outputs
    \* ---- the nested circuit of test::scalar_integrate_nested ----
    it_inputs,         \* history: the parent inputs so far, the last one current
    it_running,        \* the child clock of the current parent step is running
    it_feedback,       \* the delay of the counter (child scope)
    it_sum,            \* the delay of the child-scope integrate
    it_exports,        \* history: the value exported by each parent step
    \* ---- the fixed-point circuit of p(x,z) :- p(x,y), p(y,z) ----
    fp_input,          \* the relation p the parent gives: a Z-set of pairs
    fp_phase,          \* "running" | "done" ("" idle)
    fp_delta,          \* the delayed feedback pvar: the change of p to feed next
    fp_trace,          \* join_trace: the integral of the feedback seen so far
    fp_distinct,       \* distinct_trace: the integral of its input
    fp_export,         \* integrate_trace: the integral of p, exported at the end
    fp_iter,           \* history: the child iterations run
    \* ---- OrdIndexedZSetBuilder ----
    ord_keys,          \* OrderedBuilder.keys
    ord_offs,          \* OrderedBuilder.offs
    ord_vals,          \* OrderedLeafBuilder.vals
    ord_phase,         \* "building", "sealed" or "panicked"
    ord_layer,         \* the layer of the batch done() returned
    ord_pushed,        \* history: every tuple pushed, in push order
    idx1,              \* the layer of the first indexed Z-set merged
    idx2,              \* the layer of the second indexed Z-set merged
    idx_out            \* outcome of the merger: [called, ok, layer]

spineVars ==
    <<merging, effort, cursor_storage, inserted, panic, phase, inserts, result>>
flagVars ==
    <<self_lower, self_upper, dirty, activator, activated, effort_arg, nonempty_since,
      last_op, rounds, steps>>
heldVars == <<held, seen>>
leafVars == <<leaf1, leaf2, leaf3, leaf_op, leaf_out>>
advVars == <<slice_len, prefix_len, adv_out>>
bldVars == <<builder_vals, boundary, pushed, sectioned, built>>
curVars == <<cur_storage, leaf_cursor, cur_op, cur_before, cur_key, cur_ops, cur_panic>>
workVars == <<work_fuel, work_out>>
intVars == <<int_kind, int_z1, int_out, int_fed>>
\* the dataflow circuits
nestVars == <<nest_values, nest_timestamp, nest_rows, nest_outs>>
iterVars == <<it_inputs, it_running, it_feedback, it_sum, it_exports>>
fpVars == <<fp_input, fp_phase, fp_delta, fp_trace, fp_distinct, fp_export, fp_iter>>
sortVars == <<ord_keys, ord_offs, ord_vals, ord_phase, ord_layer, ord_pushed>>
idxVars == <<idx1, idx2, idx_out>>
circVars == <<intVars, nestVars, iterVars, fpVars, sortVars, idxVars>>
\* the components a Spine operation leaves alone
notSpine == <<leafVars, advVars, bldVars, curVars, workVars, circVars>>
\* the Spine in full
spineAll == <<spineVars, flagVars, heldVars>>
vars == <<overflow_checks, spineAll, notSpine>>

(***************************************************************************)
(* Bounds of the model.                                                    *)
(***************************************************************************)
MaxKey == 3          \* keys of drawn leaves and batches are 1..MaxKey
MaxSliceLen == 40    \* every slice length 0..MaxSliceLen is drawn for advance
MaxPushed == 3       \* tuples pushed into an UnorderedLeafBuilder
MaxInserts == 4      \* insert calls on a spine
MaxBatchLen == 3     \* tuples of a batch drawn for insert
MaxLongInserts == 3  \* insert calls on a spine whose first batch is the long run
MaxFuel == 4         \* exert is called with fuel 1..MaxFuel
MaxEffort == 1       \* with_effort is called with 0..MaxEffort
MaxRounds == 6       \* rounds of the consolidate loop the model follows
MaxCursorOps == 3    \* operations applied to an OrderedLeafCursor
MaxTraceInserts == 2 \* insert calls on the Spine of SpecTrace
MaxHeldInserts == 2  \* insert calls on the Spine of SpecHeld
MaxSteps == 3        \* steps of the circuit that integrates a stream
MaxStreamKey == 2    \* keys of the Z-sets drawn as stream values
MaxParentSteps == 3  \* parent steps of a nested circuit
MaxChildSteps == 2   \* child steps drawn for one parent step
MaxIterations == 4   \* parent steps of the circuit that iterates a child
MaxInput == 5        \* its parent inputs are 0..MaxInput
MaxNode == 4         \* the relations drawn for the fixed point are over 1..MaxNode
MaxEdges == 3        \* and have at most this many tuples
MaxStepInserts == 4  \* insert calls on the spine whose inner calls are logged
MaxWakeInserts == 3   \* inserts into the Spine that holds an activator
MaxFuelInserts == 4   \* inserts into the Spine that apply_fuel is called on
MaxDrainInserts == 3  \* inserts into the Spine before exert is called alone
MaxDrainCalls == 12   \* exert calls of a caller that inserts no more
MaxIdxKey == 2        \* keys of the indexed Z-sets merged
MaxIdxVal == 2        \* values under one key of the indexed Z-sets merged
MaxSortVal == 2      \* values pushed under a key are 1..MaxSortVal
LongSliceLen == 2069 \* advance is also drawn slices of this length and one less
LongRunLen == 2071   \* push_merge is also drawn a run of this many keys

(***************************************************************************)
(* Program constants.                                                      *)
(***************************************************************************)
small_limit == 8     \* advance: let small_limit = 8
RunCopyCap == 1000   \* push_merge: min(step, 1000)
UsizeBits == 64      \* width of usize / isize on the 64-bit targets

Min(a, b) == IF a < b THEN a ELSE b

RECURSIVE Pow2(_)
Pow2(n) == IF n = 0 THEN 1 ELSE 2 * Pow2(n - 1)

(***************************************************************************)
(* advance (trace/layers/mod.rs).  The slice and the predicate are given   *)
(* by fs, the sequence of the predicate's values on the slice: fs[i+1] is  *)
(* function(&slice[i]).  The outcome is [ok, n]: ok = FALSE is the panic   *)
(* "attempt to shift left with overflow" of a build with overflow checks.  *)
(***************************************************************************)

\* step <<= step on usize.  A shift amount >= 64 panics with overflow
\* checks and is masked to its low 6 bits without.
ShlAssign(step, checks) ==
    IF step >= UsizeBits
    THEN IF checks THEN [ok |-> FALSE, step |-> step]
         ELSE [ok |-> TRUE, step |-> step * Pow2(step % UsizeBits)]
    ELSE [ok |-> TRUE, step |-> step * Pow2(step)]

\* while index + step < slice.len() && function(&slice[index + step])
\*     { index += step; step <<= step; }
\* History: probed is the sequence of the values of step at the loop's tests.
Probed(step, g) == [g EXCEPT !.probed = <<step>> \o @]

RECURSIVE AdvanceGrow(_, _, _, _)
AdvanceGrow(fs, index, step, checks) ==
    IF index + step < Len(fs) /\ fs[index + step + 1]
    THEN LET s == ShlAssign(step, checks)
         IN  IF s.ok THEN Probed(step, AdvanceGrow(fs, index + step, s.step, checks))
             ELSE [ok |-> FALSE, index |-> index + step, step |-> step,
                   probed |-> <<step>>]
    ELSE [ok |-> TRUE, index |-> index, step |-> step, probed |-> <<step>>]

\* while step > 0 { if index + step < len && f(index + step) { index += step }
\*                  step >>= 1 }
RECURSIVE AdvanceShrink(_, _, _)
AdvanceShrink(fs, index, step) ==
    IF step > 0
    THEN AdvanceShrink(fs,
             IF index + step < Len(fs) /\ fs[index + step + 1]
             THEN index + step ELSE index,
             step \div 2)
    ELSE index

\* History: the values of step at the tests of the shrinking loop, from
\* `step >>= 1` on.
RECURSIVE ShrinkSteps(_)
ShrinkSteps(step) == IF step > 0 THEN <<step>> \o ShrinkSteps(step \div 2) ELSE <<>>

\* History: the steps of the two loops of advance, where it enters them.
AdvanceGallop(g) ==
    [galloped |-> TRUE, grown |-> g.probed,
     shrunk |-> IF g.ok THEN ShrinkSteps(g.step \div 2) ELSE <<>>]

AdvanceSteps(fs, checks) ==
    IF Len(fs) > small_limit + 1 /\ fs[small_limit + 1] /\ fs[small_limit + 2]
    THEN AdvanceGallop(AdvanceGrow(fs, small_limit + 1, 1, checks))
    ELSE [galloped |-> FALSE, grown |-> <<>>, shrunk |-> <<>>]

Advance(fs, checks) ==
    IF Len(fs) > small_limit /\ fs[small_limit + 1]
    THEN LET index == small_limit + 1
         IN  IF index < Len(fs) /\ fs[index + 1]
             THEN LET g == AdvanceGrow(fs, index, 1, checks)
                  IN  IF g.ok
                      THEN [ok |-> TRUE,
                            n |-> AdvanceShrink(fs, g.index, g.step \div 2) + 1]
                      ELSE [ok |-> FALSE, n |-> 0]
             ELSE [ok |-> TRUE, n |-> index]
    ELSE LET limit == Min(Len(fs), small_limit)
         IN  [ok |-> TRUE, n |-> Cardinality({i \in 1..limit : fs[i]})]

(***************************************************************************)
(* OrderedLeaf and OrderedLeafBuilder (trace/layers/ordered_leaf.rs).      *)
(* Positions are 0-based as in the source: trie.vals[i] is trie[i + 1].    *)
(***************************************************************************)
Key(t) == t[1]
Weight(t) == t[2]

\* Trie::keys for OrderedLeaf: self.vals.len()
Keys(leaf) == Len(leaf)

\* Trie::is_empty: self.keys() == 0
IsEmpty(leaf) == Keys(leaf) = 0

\* &trie.vals[lower..upper]
Slice(trie, lower, upper) == SubSeq(trie, lower + 1, upper)

\* MergeBuilder::copy_range: self.vals.extend_from_slice(&other.vals[lower..upper])
CopyRange(vals, other, lower, upper) == vals \o Slice(other, lower, upper)

\* The values of the closure |x| x.0 < key on a slice.
LessThanKey(slice, key) == [i \in 1..Len(slice) |-> Key(slice[i]) < key]

\* OrderedLeafBuilder::push_merge: the loop over both cursors' ranges and the
\* two tail copies.  The outcome is [ok, vals]; ok = FALSE when advance panicked.
RECURSIVE PushMerge(_, _, _, _, _, _, _, _)
PushMerge(vals, trie1, lower1, upper1, trie2, lower2, upper2, checks) ==
    IF lower1 < upper1 /\ lower2 < upper2
    THEN LET k1 == Key(trie1[lower1 + 1])
             k2 == Key(trie2[lower2 + 1])
         IN  IF k1 < k2
             THEN LET a == Advance(LessThanKey(Slice(trie1, 1 + lower1, upper1), k2),
                                   checks)
                      step == Min(1 + a.n, RunCopyCap)
                  IN  IF ~a.ok THEN [ok |-> FALSE, vals |-> vals]
                      ELSE PushMerge(CopyRange(vals, trie1, lower1, lower1 + step),
                                     trie1, lower1 + step, upper1,
                                     trie2, lower2, upper2, checks)
             ELSE IF k1 = k2
             THEN LET sum == Weight(trie1[lower1 + 1]) + Weight(trie2[lower2 + 1])
                  IN  PushMerge(IF sum # 0 THEN Append(vals, <<k1, sum>>) ELSE vals,
                                trie1, lower1 + 1, upper1,
                                trie2, lower2 + 1, upper2, checks)
             ELSE LET a == Advance(LessThanKey(Slice(trie2, 1 + lower2, upper2), k1),
                                   checks)
                      step == Min(1 + a.n, RunCopyCap)
                  IN  IF ~a.ok THEN [ok |-> FALSE, vals |-> vals]
                      ELSE PushMerge(CopyRange(vals, trie2, lower2, lower2 + step),
                                     trie1, lower1, upper1,
                                     trie2, lower2 + step, upper2, checks)
    ELSE LET v1 == IF lower1 < upper1
                   THEN CopyRange(vals, trie1, lower1, upper1) ELSE vals
             v2 == IF lower2 < upper2
                   THEN CopyRange(v1, trie2, lower2, upper2) ELSE v1
         IN  [ok |-> TRUE, vals |-> v2]

\* Trie::merge (trace/layers/mod.rs): a fresh merge builder, push_merge over
\* the two full cursors, done().
Merge(self, other, checks) ==
    PushMerge(<<>>, self, 0, Keys(self), other, 0, Keys(other), checks)

Returned(leaf) == [ok |-> TRUE, vals |-> leaf]

\* A faulty variant of Add: the shortcut for an empty left operand returns
\* that operand.
AddKeepsSelf(self, rhs, checks) ==
    IF IsEmpty(self) \/ IsEmpty(rhs) THEN Returned(self)
    ELSE Merge(self, rhs, checks)

\* impl Add for OrderedLeaf
Add(self, rhs, checks) ==
    IF IsEmpty(self) THEN Returned(rhs)
    ELSE IF IsEmpty(rhs) THEN Returned(self)
    ELSE Merge(self, rhs, checks)

\* impl AddAssign for OrderedLeaf: the value of *self afterwards
AddAssign(self, rhs, checks) ==
    IF ~IsEmpty(rhs) THEN Merge(self, rhs, checks) ELSE Returned(self)

\* impl AddAssignByRef for OrderedLeaf: the value of *self afterwards
AddAssignByRef(self, other, checks) ==
    IF ~IsEmpty(other) THEN Merge(self, other, checks) ELSE Returned(self)

\* impl AddByRef for OrderedLeaf
AddByRef(self, rhs, checks) == Merge(self, rhs, checks)

(***************************************************************************)
(* consolidate_slice (trace/consolidation.rs): a stable sort by key, then  *)
(* one scan that sums consecutive equal keys and compacts the entries with *)
(* a non-zero sum to the front.  The outcome is [vals, len]: the slice     *)
(* afterwards and the number of survivors at its front.                    *)
(***************************************************************************)
RECURSIVE InsertSorted(_, _)
InsertSorted(sorted, t) ==
    IF sorted = <<>> THEN <<t>>
    ELSE IF Key(sorted[Len(sorted)]) <= Key(t) THEN Append(sorted, t)
    ELSE Append(InsertSorted(SubSeq(sorted, 1, Len(sorted) - 1), t),
                sorted[Len(sorted)])

RECURSIVE StableSort(_)
StableSort(s) ==
    IF s = <<>> THEN <<>>
    ELSE InsertSorted(StableSort(SubSeq(s, 1, Len(s) - 1)), s[Len(s)])

\* The scan: acc is the compacted front, cur the entry being summed.
RECURSIVE SumRuns(_, _, _, _)
SumRuns(sorted, i, acc, cur) ==
    LET flush == IF Weight(cur) # 0 THEN Append(acc, cur) ELSE acc
    IN  IF i > Len(sorted) THEN flush
        ELSE IF Key(sorted[i]) = Key(cur)
        THEN SumRuns(sorted, i + 1, acc, <<Key(cur), Weight(cur) + Weight(sorted[i])>>)
        ELSE SumRuns(sorted, i + 1, flush, sorted[i])

ConsolidateSlice(slice) ==
    LET sorted == StableSort(slice)
        front == IF sorted = <<>> THEN <<>>
                 ELSE SumRuns(sorted, 2, <<>>, sorted[1])
    IN  [vals |-> front \o SubSeq(sorted, Len(front) + 1, Len(sorted)),
         len |-> Len(front)]

(***************************************************************************)
(* UnorderedLeafBuilder (trace/layers/ordered_leaf.rs).  A builder is      *)
(* [vals, boundary].                                                       *)
(***************************************************************************)
\* TupleBuilder::push_tuple
PushTuple(b, tuple) == [b EXCEPT !.vals = Append(@, tuple)]

\* A faulty variant of boundary: the tail is consolidated but vals is not
\* truncated to the new boundary.
BoundaryKeepsTail(b) ==
    LET c == ConsolidateSlice(Slice(b.vals, b.boundary, Len(b.vals)))
    IN  [vals |-> Slice(b.vals, 0, b.boundary) \o c.vals,
         boundary |-> b.boundary + c.len]

\* Builder::boundary: consolidate the tail from the recorded boundary in
\* place, advance the boundary by the survivors, truncate to it.
Boundary(b) ==
    LET c == ConsolidateSlice(Slice(b.vals, b.boundary, Len(b.vals)))
        vals == Slice(b.vals, 0, b.boundary) \o c.vals
        bnd == b.boundary + c.len
    IN  [vals |-> Slice(vals, 0, bnd), boundary |-> bnd]

\* Builder::done: self.boundary(); OrderedLeaf { vals: self.vals }
Done(b) == Boundary(b).vals

(***************************************************************************)
(* Z-sets: what a leaf denotes.                                            *)
(***************************************************************************)
\* The weight a leaf gives a key (0 when the key is absent).
WeightIn(leaf, k) ==
    IF \E i \in 1..Len(leaf) : Key(leaf[i]) = k
    THEN Weight(leaf[CHOOSE i \in 1..Len(leaf) : Key(leaf[i]) = k])
    ELSE 0

\* Keys strictly ascending (hence unique).
StrictlyAscending(leaf) ==
    \A i \in 1..(Len(leaf) - 1) : Key(leaf[i]) < Key(leaf[i + 1])

NoZeroWeight(leaf) == \A i \in 1..Len(leaf) : Weight(leaf[i]) # 0

\* A sealed leaf: the invariants of OrderedLeaf.
Sealed(leaf) == StrictlyAscending(leaf) /\ NoZeroWeight(leaf)

\* leaf is the sealed leaf of the Z-set that gives key k the weight W(k):
\* exactly the keys of `keys` with a non-zero weight, each with that weight.
LeafDenotes(leaf, keys, W(_)) ==
    /\ Sealed(leaf)
    /\ \A i \in 1..Len(leaf) : Key(leaf[i]) \in keys /\ Weight(leaf[i]) = W(Key(leaf[i]))
    /\ \A k \in keys : W(k) # 0 => \E i \in 1..Len(leaf) : Key(leaf[i]) = k

KeysOf(leaf) == {Key(leaf[i]) : i \in 1..Len(leaf)}

\* A Z-set as a function from its keys to their non-zero weights.
EmptyZSet == [k \in {} |-> 0]

\* The position of key k in an ascending leaf within lo..hi, or 0.
RECURSIVE FindKey(_, _, _, _)
FindKey(leaf, k, lo, hi) ==
    IF lo > hi THEN 0
    ELSE LET mid == (lo + hi) \div 2
         IN  IF Key(leaf[mid]) = k THEN mid
             ELSE IF Key(leaf[mid]) < k THEN FindKey(leaf, k, mid + 1, hi)
             ELSE FindKey(leaf, k, lo, mid - 1)

\* The weight an ascending leaf gives a key (0 when the key is absent).
WeightAt(leaf, k) ==
    LET i == FindKey(leaf, k, 1, Len(leaf))
    IN  IF i = 0 THEN 0 ELSE Weight(leaf[i])

\* The Z-set z plus the Z-set of an ascending leaf.
ZSetPlus(z, leaf) ==
    LET w(k) == (IF k \in DOMAIN z THEN z[k] ELSE 0) + WeightAt(leaf, k)
    IN  [k \in {j \in DOMAIN z \cup KeysOf(leaf) : w(j) # 0} |-> w(k)]

\* The sum of the Z-sets of the first n batches of a sequence.
RECURSIVE ZSetSum(_, _)
ZSetSum(batches, n) ==
    IF n = 0 THEN EmptyZSet ELSE ZSetPlus(ZSetSum(batches, n - 1), batches[n])

\* leaf is the sealed leaf of the Z-set z.
IsLeafOf(leaf, z) == Sealed(leaf) /\ ZSetPlus(EmptyZSet, leaf) = z

(***************************************************************************)
(* Inputs drawn for the pure functions.                                    *)
(***************************************************************************)
DrawnKeys == 1..MaxKey
DrawnWeights == {-1, 1}

\* The sealed leaf of a function from keys lo..hi to weights (0: absent).
RECURSIVE LeafOf(_, _, _)
LeafOf(f, lo, hi) ==
    IF lo > hi THEN <<>>
    ELSE (IF f[lo] # 0 THEN <<<<lo, f[lo]>>>> ELSE <<>>) \o LeafOf(f, lo + 1, hi)

SealedLeavesOver(n) ==
    {LeafOf(f, 1, n) : f \in [1..n -> DrawnWeights \cup {0}]}

SealedLeaves == SealedLeavesOver(MaxKey)

\* A run of n consecutive keys 1..n, each with weight +1.
Run(n) == [i \in 1..n |-> <<i, 1>>]

\* Pairs with a long run of smaller keys on one side: a run just over the
\* run-copy cap and a run long enough for every galloping probe of advance.
LongPairs ==
    LET two(n) == {<<Run(n), <<<<n, -1>>>>>>, <<<<<<n, -1>>>>, Run(n)>>}
    IN  two(RunCopyCap + 2) \cup two(LongRunLen)

\* The leaves of the leaf-merge seed test.
SeedA == <<<<1, 1>>, <<2, 1>>, <<3, 1>>>>
SeedB == <<<<2, -1>>, <<3, 1>>, <<4, 1>>>>
SeedMerged == <<<<1, 1>>, <<3, 2>>, <<4, 1>>>>

(***************************************************************************)
(* The states in which a component is not in use.                          *)
(***************************************************************************)
None == [some |-> FALSE, vals |-> <<>>]
Some(b) == [some |-> TRUE, vals |-> b]

\* no SpineCursor is kept; key() was not called on one
NotHeld == [made |-> FALSE, cursors |-> <<>>, min_key |-> 0, stale |-> FALSE,
            keys |-> {}]
NotSeen == [called |-> FALSE, panic |-> FALSE, valid |-> FALSE, key |-> 0,
            stale |-> FALSE]

StepsOff == [on |-> {}, log |-> <<>>]

SpineIdle ==
    /\ merging = <<>>
    /\ effort = 1
    /\ cursor_storage = <<>>
    /\ inserted = EmptyZSet
    /\ panic = ""
    /\ phase = "idle"
    /\ inserts = 0
    /\ result = None
    /\ self_lower = {} /\ self_upper = {}
    /\ dirty = FALSE /\ activator = FALSE /\ activated = 0
    /\ effort_arg = 1
    /\ nonempty_since = FALSE
    /\ last_op = "off"
    /\ steps = StepsOff
    /\ rounds = 0
    /\ held = NotHeld /\ seen = NotSeen

NoOutcome == [ok |-> TRUE, vals |-> <<>>]

LeafIdle ==
    /\ leaf1 = <<>> /\ leaf2 = <<>> /\ leaf3 = <<>>
    /\ leaf_op = "idle"
    /\ leaf_out = NoOutcome

NotCalled == [called |-> FALSE, ok |-> TRUE, n |-> 0]

AdvIdle ==
    /\ slice_len = 0 /\ prefix_len = 0
    /\ adv_out = NotCalled

NotBuilt == [done |-> FALSE, vals |-> <<>>]

BldIdle ==
    /\ builder_vals = <<>> /\ boundary = 0
    /\ pushed = <<>> /\ sectioned = FALSE
    /\ built = NotBuilt

NoCursor == [pos |-> 0, bounds |-> <<0, 0>>]

CurIdle ==
    /\ cur_storage = <<>>
    /\ leaf_cursor = NoCursor /\ cur_before = NoCursor
    /\ cur_op = "idle" /\ cur_key = 0 /\ cur_ops = 0
    /\ cur_panic = ""

NoWork == [called |-> FALSE]

NoOutput == [ok |-> TRUE, val |-> 0]

IntIdle ==
    /\ int_kind = ""
    /\ int_z1 = 0
    /\ int_out = NoOutput
    /\ int_fed = <<>>

NestIdle ==
    /\ nest_values = <<>>
    /\ nest_timestamp = 0
    /\ nest_rows = <<>>
    /\ nest_outs = <<>>

IterIdle ==
    /\ it_inputs = <<>>
    /\ it_running = FALSE
    /\ it_feedback = 0
    /\ it_sum = 0
    /\ it_exports = <<>>

FpIdle ==
    /\ fp_input = <<>>
    /\ fp_phase = ""
    /\ fp_delta = <<>>
    /\ fp_trace = <<>>
    /\ fp_distinct = <<>>
    /\ fp_export = <<>>
    /\ fp_iter = 0

NoLayer == [keys |-> <<>>, offs |-> <<>>, vals |-> <<>>]

SortIdle ==
    /\ ord_keys = <<>> /\ ord_offs = <<>> /\ ord_vals = <<>>
    /\ ord_phase = "" /\ ord_layer = NoLayer /\ ord_pushed = <<>>

NotMerged == [called |-> FALSE, ok |-> TRUE, layer |-> NoLayer]

IdxIdle == idx1 = NoLayer /\ idx2 = NoLayer /\ idx_out = NotMerged

CircIdle == IntIdle /\ NestIdle /\ IterIdle /\ FpIdle /\ SortIdle /\ IdxIdle

WorkIdle ==
    /\ work_fuel = 0
    /\ work_out = NoWork

(***************************************************************************)
(* Fuel.  An isize fuel value is [max, n] and stands for n, or for         *)
(* isize::MAX + n when max is set: isize::MAX itself does not fit the      *)
(* model checker's integers, and the code only subtracts small counts from *)
(* it, compares it with 0 and takes its level.                             *)
(***************************************************************************)
Fuel(n) == [max |-> FALSE, min |-> FALSE, n |-> n]
IsizeMax == [max |-> TRUE, min |-> FALSE, n |-> 0]
\* isize::MIN + n, for a small n >= 0
IsizeMinPlus(n) == [max |-> FALSE, min |-> TRUE, n |-> n]

FuelMinus(f, k) == [f EXCEPT !.n = @ - k]
FuelPositive(f) == f.max \/ (~f.min /\ f.n > 0)

\* *fuel -= k on isize.  Below isize::MIN the subtraction panics with
\* overflow checks and wraps to isize::MAX + 1 - (k - n) without.
PanicShift == "attempt to shift left with overflow"
PanicSub == "attempt to subtract with overflow"
FuelSub(f, k, checks) ==
    IF f.min /\ k > f.n
    THEN IF checks THEN [ok |-> FALSE, fuel |-> f]
         ELSE [ok |-> TRUE, fuel |-> [max |-> TRUE, min |-> FALSE, n |-> 1 + f.n - k]]
    ELSE [ok |-> TRUE, fuel |-> FuelMinus(f, k)]

\* n.next_power_of_two().trailing_zeros(): the least k with 2^k >= n.
RECURSIVE CeilLog2From(_, _)
CeilLog2From(n, k) == IF Pow2(k) >= n THEN k ELSE CeilLog2From(n, k + 1)

NextPowerOfTwoLog(n) == CeilLog2From(n, 0)

\* the level taken as floor(log2(n)): 63 - leading_zeros
FuelLevelFloor(f) ==
    IF f.max THEN UsizeBits - 1
    ELSE IF Pow2(NextPowerOfTwoLog(f.n)) = f.n THEN NextPowerOfTwoLog(f.n)
    ELSE NextPowerOfTwoLog(f.n) - 1

\* (*effort as usize).next_power_of_two().trailing_zeros() in Spine::exert.
\* isize::MAX less a small count still rounds up to 2^63.
FuelLevel(f) == IF f.max THEN UsizeBits - 1 ELSE NextPowerOfTwoLog(f.n)

\* introduce_batch: let mut fuel = 8 << batch_index; fuel *= self.effort;
\* fuel as isize.  Bits shifted beyond the word are lost: from level 61 on
\* the shift yields 0.
FuelFor(batch_index, eff) ==
    IF batch_index + 3 >= UsizeBits THEN Fuel(0)
    ELSE Fuel(8 * Pow2(batch_index) * eff)

(***************************************************************************)
(* The Merger (trace/ord/indexed_zset_batch.rs), over leaves.  A merger is *)
(* the vals of its result builder.                                         *)
(***************************************************************************)
\* Merger::new: an empty result builder
MergerNew == <<>>

\* *fuel = max(*fuel, 1)
ClampFuel(f) == IF FuelPositive(f) THEN f ELSE Fuel(1)

\* Merger::work once the subtraction `*fuel -= n` has given d = [ok, fuel]:
\* the fuel is clamped.
MergerCharged(r, d) ==
    [ok |-> d.ok,
     panic |-> IF d.ok THEN "" ELSE PanicSub,
     result |-> r.vals,
     fuel |-> IF d.ok THEN ClampFuel(d.fuel) ELSE d.fuel,
     charge |-> Len(r.vals)]

\* Merger::work once push_merge has returned r = [ok, vals]: the result
\* builder holds r.vals and the fuel is charged with push_merge's return
\* value, self.vals.len().  `charge` is history: the amount subtracted.
MergerCharge(r, fuel, checks) ==
    IF r.ok THEN MergerCharged(r, FuelSub(fuel, Len(r.vals), checks))
    ELSE [ok |-> FALSE, panic |-> PanicShift, result |-> r.vals, fuel |-> fuel,
          charge |-> 0]

\* Merger::work: *fuel -= self.result.push_merge(full cursors of both
\* sources); *fuel = max(*fuel, 1).  The outcome is [ok, result, fuel].
MergerWork(merger, source1, source2, fuel, checks) ==
    MergerCharge(PushMerge(merger, source1, 0, Keys(source1),
                           source2, 0, Keys(source2), checks),
                 fuel, checks)

\* Merger::done
MergerDone(merger) == merger

(***************************************************************************)
(* MergeState and MergeVariant (trace/spine_fueled.rs).                    *)
(* An Option<Batch> is None or Some(leaf).  `age` of an in-progress merge  *)
(* is history: the records inserted since by later insert calls.           *)
(***************************************************************************)
Vacant == [tag |-> "Vacant"]
Single(b) == [tag |-> "Single", batch |-> b]
InProgress(b1, b2, m, age) ==
    [tag |-> "Double", variant |-> "InProgress",
     batch1 |-> b1, batch2 |-> b2, merger |-> m, age |-> age]
Complete(b) == [tag |-> "Double", variant |-> "Complete", batch |-> b]

is_vacant(m) == m.tag = "Vacant"
is_single(m) == m.tag = "Single"
is_double(m) == m.tag = "Double"
is_complete(m) == m.tag = "Double" /\ m.variant = "Complete"
is_inprogress(m) == m.tag = "Double" /\ m.variant = "InProgress"

\* MergeState::len: the number of actual updates contained in the level
MergeStateLen(m) ==
    IF is_single(m) /\ m.batch.some THEN Len(m.batch.vals)
    ELSE IF is_inprogress(m) THEN Len(m.batch1) + Len(m.batch2)
    ELSE IF is_complete(m) /\ m.batch.some THEN Len(m.batch.vals)
    ELSE 0

\* begin_merge with its two one-sided arms swapped: the placeholder is
\* carried over and the batch is lost
begin_merge_keeps_none(batch1, batch2) ==
    IF batch1.some /\ batch2.some
    THEN InProgress(batch1.vals, batch2.vals, MergerNew, 0)
    ELSE Complete(None)

\* MergeState::begin_merge
begin_merge(batch1, batch2) ==
    IF batch1.some /\ batch2.some
    THEN InProgress(batch1.vals, batch2.vals, MergerNew, 0)
    ELSE IF batch2.some THEN Complete(batch2)
    ELSE IF batch1.some THEN Complete(batch1)
    ELSE Complete(None)

PanicIncomplete == "Attempted to insert batch into incomplete merge!"
PanicFailedComplete == "Failed to complete a merge!"
PanicMapInProgress == "map_batches_mut called on an in-progress batch"
PanicAssertMerges == "assertion failed: no merge in progress"

\* A faulty variant of MergeVariant::work: the test of the remaining fuel
\* is inverted, so a merge with fuel left stays in progress.
MergeVariantWorkStalls(m, fuel, checks) ==
    IF is_inprogress(m)
    THEN LET w == MergerWork(m.merger, m.batch1, m.batch2, fuel, checks)
         IN  IF ~w.ok THEN [slot |-> m, panic |-> w.panic, fuel |-> w.fuel]
             ELSE IF ~FuelPositive(w.fuel)
             THEN [slot |-> Complete(Some(MergerDone(w.result))), panic |-> "",
                   fuel |-> w.fuel]
             ELSE [slot |-> [m EXCEPT !.merger = w.result], panic |-> "", fuel |-> w.fuel]
    ELSE [slot |-> m, panic |-> "", fuel |-> fuel]

\* MergeVariant::work after merge.work(b1, b2, fuel) gave w = [ok, result,
\* fuel]: with fuel left the merge is done and the variant becomes Complete.
MergeVariantWorked(m, w) ==
    IF ~w.ok THEN [slot |-> m, panic |-> w.panic, fuel |-> w.fuel]
    ELSE IF FuelPositive(w.fuel)
    THEN [slot |-> Complete(Some(MergerDone(w.result))), panic |-> "", fuel |-> w.fuel]
    ELSE [slot |-> [m EXCEPT !.merger = w.result], panic |-> "", fuel |-> w.fuel]

\* MergeVariant::work on a Double slot: the outcome is [slot, panic, fuel],
\* fuel being *fuel when the call returns.
MergeVariantWork(m, fuel, checks) ==
    IF is_inprogress(m)
    THEN MergeVariantWorked(m, MergerWork(m.merger, m.batch1, m.batch2, fuel, checks))
    ELSE [slot |-> m, panic |-> "", fuel |-> fuel]

\* MergeState::work: only a Double does work.
MergeStateWork(m, fuel, checks) ==
    IF is_double(m) THEN MergeVariantWork(m, fuel, checks)
    ELSE [slot |-> m, panic |-> "", fuel |-> fuel]

\* MergeVariant::complete after self.work(&mut fuel) gave w = [slot, panic]:
\* the batch of a Complete variant, else the panic.
MergeVariantComplete(w) ==
    IF w.panic # "" THEN [batch |-> None, panic |-> w.panic]
    ELSE IF is_complete(w.slot) THEN [batch |-> w.slot.batch, panic |-> ""]
    ELSE [batch |-> None, panic |-> PanicFailedComplete]

\* MergeState::complete (the slot itself becomes Vacant): the outcome is
\* [batch, panic].  MergeVariant::complete works with fuel isize::MAX and
\* panics when the merge is still in progress.
MergeStateComplete(m, checks) ==
    IF is_vacant(m) THEN [batch |-> None, panic |-> ""]
    ELSE IF is_single(m) THEN [batch |-> m.batch, panic |-> ""]
    ELSE MergeVariantComplete(MergeVariantWork(m, IsizeMax, checks))

(***************************************************************************)
(* Spine (trace/spine_fueled.rs).  The helpers work on s = [merging,       *)
(* panic]; once s.panic is set the program has ended and nothing changes.  *)
(* Level k is merging[k + 1].                                              *)
(***************************************************************************)
Slot(s, index) == s.merging[index + 1]

\* history: one call inside the Spine, with what it was given (a) and what
\* it left (b)
Event(op, index, a, b) == [op |-> op, index |-> index, a |-> a, b |-> b]
Log(s, e) ==
    IF e.op \in s.logging /\ s.panic = "" THEN [s EXCEPT !.log = Append(@, e)] ELSE s
SetSlot(s, index, m) == [s EXCEPT !.merging[index + 1] = m]
Panicked(s, msg) == [s EXCEPT !.panic = msg]

\* while self.merging.len() <= index { self.merging.push(Vacant) }
EnsureLen(s, index) ==
    IF Len(s.merging) <= index
    THEN [s EXCEPT !.merging =
              @ \o [i \in 1..(index + 1 - Len(s.merging)) |-> Vacant]]
    ELSE s

\* self.merging[index] = slot in insert_at.  History: the call is logged
\* with the batch, the slot it found and the slot it left.
Inserted(s, batch, index, slot) ==
    Log(SetSlot(s, index, slot),
        Event("insert_at", index, [batch |-> batch, was |-> Slot(s, index)], slot))

\* Spine::insert_at
insert_at(s0, batch, index) ==
    IF s0.panic # "" THEN s0
    ELSE LET s == EnsureLen(s0, index)
             m == Slot(s, index)
         IN  IF is_vacant(m) THEN Inserted(s, batch, index, Single(batch))
             ELSE IF is_single(m)
             THEN Inserted(s, batch, index, begin_merge(m.batch, batch))
             ELSE Panicked(SetSlot(s, index, Vacant), PanicIncomplete)

\* self.merging[index].complete() gave c = [batch, panic]: the slot is taken
\* (left Vacant).  The outcome is [s, batch].
TakeCompleted(s, index, c) ==
    [s |-> [SetSlot(s, index, Vacant) EXCEPT !.panic = c.panic],
     batch |-> c.batch]

\* Spine::complete_at: the outcome is [s, batch].
complete_at(s, index, checks) ==
    IF s.panic # "" THEN [s |-> s, batch |-> None]
    ELSE TakeCompleted(s, index, MergeStateComplete(Slot(s, index), checks))

\* self.insert_at(c.batch, to) on the spine c.s, for c = [s, batch]
InsertTaken(c, to) == insert_at(c.s, c.batch, to)

\* complete_at(index) followed by insert_at(<the batch>, to)
Promote(s, index, to, checks) == InsertTaken(complete_at(s, index, checks), to)

\* self.merging[index].work(&mut fuel) gave w = [slot, panic]
Worked(s, index, w) == [SetSlot(s, index, w.slot) EXCEPT !.panic = w.panic]

\* apply_fuel leaving a completed merge in its slot
PromoteNever(s, index, checks) == s

\* if self.merging[index].is_complete()
\*     { let complete = self.complete_at(index); self.insert_at(complete, index + 1); }
PromoteIfComplete(s, index, checks) ==
    IF s.panic = "" /\ is_complete(Slot(s, index))
    THEN Promote(s, index, index + 1, checks)
    ELSE s

\* roll_up completing the merge at `index` and dropping the merged batch
PromoteIfDoubleDrops(s, index, checks) ==
    IF s.panic = "" /\ is_double(Slot(s, index))
    THEN complete_at(s, index, checks).s
    ELSE s

\* the slot of a level, Vacant where merging does not reach it yet
SlotOrVacant(s, index) == IF index < Len(s.merging) THEN Slot(s, index) ELSE Vacant

\* if self.merging[index].is_double()
\*     { let merged = self.complete_at(index); self.insert_at(merged, index + 1); }
\* History: the promotion is logged with the slot it is about to insert into.
PromoteIfDouble(s, index, checks) ==
    IF s.panic = "" /\ is_double(Slot(s, index))
    THEN Promote(Log(s, Event("promote", index, SlotOrVacant(s, index + 1),
                              Slot(s, index))),
                 index, index + 1, checks)
    ELSE s

\* `let mut fuel = *fuel;` handing the callee the caller's own fuel: what
\* one level leaves is what the next level gets
CallerFuelShared(fuel, w) == w.fuel

\* `let mut fuel = *fuel;`: the callee works on a copy, and the caller's
\* fuel is as it was, whatever w = [slot, panic, fuel] the callee returned
CallerFuel(fuel, w) == fuel

\* Spine::apply_fuel: the loop body for `index`, then the rest of the
\* range 0..len fixed when the loop started; `fuel` is the caller's *fuel.
\* self.merging[index].work(&mut fuel) gave w; a slot that is not a Double
\* does no work, spends no fuel and is not complete: the body leaves it
\* alone.  History: the call of work is
\* logged with the fuel it was handed and the fuel it left ("work") and with
\* the slot before and after it ("worked"), and the return of apply_fuel
\* with the caller's fuel.
RECURSIVE ApplyFuelFrom(_, _, _, _, _)
RECURSIVE ApplyFuelWorked(_, _, _, _, _, _)
ApplyFuelWorked(s, index, len, fuel, w, checks) ==
    ApplyFuelFrom(
        PromoteIfComplete(
            Log(Log(Worked(s, index, w), Event("work", index, fuel, w.fuel)),
                Event("worked", index, Slot(s, index), w.slot)),
            index, checks),
        index + 1, len, CallerFuel(fuel, w), checks)

ApplyFuelFrom(s, index, len, fuel, checks) ==
    IF s.panic # "" THEN s
    ELSE IF index >= len THEN Log(s, Event("apply_fuel returns", len, fuel, s.merging))
    ELSE IF ~is_double(Slot(s, index))
    THEN ApplyFuelFrom(Log(s, Event("work", index, fuel, fuel)),
                       index + 1, len, fuel, checks)
    ELSE ApplyFuelWorked(s, index, len, fuel,
                         MergeStateWork(Slot(s, index), fuel, checks), checks)

\* A faulty variant of apply_fuel: no fuel reaches the merges in progress.
apply_no_fuel(s, fuel, checks) == s

apply_fuel(s, fuel, checks) ==
    ApplyFuelFrom(Log(s, Event("apply_fuel", Len(s.merging), fuel, s.merging)),
                  0, Len(s.merging), fuel, checks)

\* Spine::roll_up: the loop `for i in 0..index`
\*     { self.insert_at(merged, i); merged = self.complete_at(i); }
\* r = [s, batch] is the spine and `merged`, and so is the outcome.  On a
\* Vacant slot the two calls make it Single(merged) and take merged out
\* again, which leaves the spine and merged as they were.
RECURSIVE RollUpLoop(_, _, _, _)
RollUpLoop(r, i, index, checks) ==
    IF i >= index \/ r.s.panic # "" THEN r
    ELSE IF is_vacant(Slot(r.s, i)) THEN RollUpLoop(r, i + 1, index, checks)
    ELSE RollUpLoop(complete_at(InsertTaken(r, i), i, checks), i + 1, index, checks)

\* A faulty variant of roll_up: a merge begun at `index` by the rolled-up
\* batch is left in place.
roll_up_unchecked(s0, index, checks) ==
    IF s0.panic # "" THEN s0
    ELSE LET s == EnsureLen(s0, index)
         IN  IF \E i \in 1..index : ~is_vacant(s.merging[i])
             THEN InsertTaken(RollUpLoop([s |-> s, batch |-> None], 0, index, checks),
                              index)
             ELSE s

\* history: roll_up returns, logged with merging as it found and left it
RollUpReturns(before, s, index) == Log(s, Event("roll_up returns", index, before, s.merging))

\* Spine::roll_up
roll_up(s0, index, checks) ==
    IF s0.panic # "" THEN s0
    ELSE LET s == EnsureLen(s0, index)
         IN  IF \E i \in 1..index : ~is_vacant(s.merging[i])
             THEN RollUpReturns(
                      s0.merging,
                      PromoteIfDouble(
                          InsertTaken(RollUpLoop([s |-> s, batch |-> None], 0, index,
                                                 checks),
                                      index),
                          index, checks),
                      index)
             ELSE RollUpReturns(s0.merging, s, index)

\* The nominal record count tidy_layers sums over merging[..upto]:
\* 1 << index for a Single, 2 << index for a Double.
RECURSIVE Smaller(_, _)
Smaller(ms, upto) ==
    IF upto = 0 THEN 0
    ELSE Smaller(ms, upto - 1)
         + (IF is_single(ms[upto]) THEN Pow2(upto - 1)
            ELSE IF is_double(ms[upto]) THEN 2 * Pow2(upto - 1)
            ELSE 0)

\* merging.remove(index + 1): the slot above the one meant is taken out
RemoveAbove(ms, index) == SubSeq(ms, 1, index + 1) \o SubSeq(ms, index + 3, Len(ms))

\* merging.remove(index)
Remove(ms, index) == SubSeq(ms, 1, index) \o SubSeq(ms, index + 2, Len(ms))

\* Spine::tidy_layers: the loop `while appropriate_level < length - 1`.
RECURSIVE TidyLoop(_, _)
TidyLoop(s, appropriate_level) ==
    LET length == Len(s.merging)
    IN  IF ~(appropriate_level < length - 1) THEN s
        ELSE LET below == Slot(s, length - 2)
             IN  IF is_vacant(below) \/ (is_single(below) /\ ~below.batch.some)
                 THEN TidyLoop([s EXCEPT !.merging = Remove(@, length - 2)],
                               appropriate_level)
                 ELSE IF is_single(below)
                 THEN IF Smaller(s.merging, length - 2) <= Pow2(length) \div 8
                      THEN insert_at([s EXCEPT !.merging = Remove(@, length - 2)],
                                     below.batch, length - 2)
                      ELSE s
                 ELSE s

\* History: tidy_layers returns, logged with the slots it was given and the
\* slots it leaves.
TidyReturns(before, s) ==
    Log(s, Event("tidy_layers", Len(before), before, s.merging))

tidy_layers(s) ==
    IF s.panic # "" \/ s.merging = <<>> THEN s
    ELSE IF is_single(s.merging[Len(s.merging)])
    THEN TidyReturns(s.merging,
                     TidyLoop(s, NextPowerOfTwoLog(MergeStateLen(s.merging[Len(s.merging)]))))
    ELSE TidyReturns(s.merging, s)

\* introduce_batch without its Step 1: the merges in progress get no fuel
\* before the levels are rolled up
introduce_batch_unfueled(s, batch, batch_index, eff, checks) ==
    tidy_layers(insert_at(roll_up(s, batch_index, checks), batch, batch_index))

\* Spine::introduce_batch
introduce_batch(s, batch, batch_index, eff, checks) ==
    LET fuel == FuelFor(batch_index, eff)
        s1 == apply_fuel(Log(s, Event("introduce_batch", batch_index, batch, fuel)),
                         fuel, checks)
        s2 == roll_up(s1, batch_index, checks)
        s3 == insert_at(s2, batch, batch_index)
    IN  tidy_layers(s3)

\* Spine::reduced
reduced(s) ==
    /\ \A i \in 1..Len(s.merging) : ~is_double(s.merging[i])
    /\ Cardinality({i \in 1..Len(s.merging) : MergeStateLen(s.merging[i]) > 0}) <= 1

\* `activator.activate()` where the call returns to it: s.acts counts the
\* calls a Spine with an activator makes.
Activate(s) == IF s.panic = "" THEN [s EXCEPT !.acts = s.acts + 1] ELSE s

\* exert without its else branch: no empty batch is introduced where no
\* merge is in progress
ExertFuelsOnly(s1, fuel, eff, checks) ==
    IF \E i \in 1..Len(s1.merging) : is_double(s1.merging[i])
    THEN apply_fuel(s1, fuel, checks)
    ELSE s1

\* the branch of Spine::exert taken when the spine is not reduced
ExertWork(s1, fuel, eff, checks) ==
    IF \E i \in 1..Len(s1.merging) : is_double(s1.merging[i])
    THEN apply_fuel(s1, fuel, checks)
    ELSE introduce_batch(s1, None, FuelLevel(fuel), eff, checks)

\* Spine::exert once tidy_layers has returned s1.  History: the spine is
\* logged as tidy_layers left it.
ExertTidied(s1, fuel, eff, checks) ==
    IF s1.panic # "" \/ reduced(s1) THEN Log(s1, Event("tidied", 0, fuel, s1.merging))
    ELSE Activate(ExertWork(Log(s1, Event("tidied", 0, fuel, s1.merging)),
                            fuel, eff, checks))

\* Spine::exert
exert(s, fuel, eff, checks) == ExertTidied(tidy_layers(s), fuel, eff, checks)

\* Spine::complete_merges doing no work on the merges in progress
complete_merges_skipped(s, checks) == s

\* Spine::complete_merges
complete_merges(s, checks) ==
    LET worked == [i \in 1..Len(s.merging) |->
                      IF is_inprogress(s.merging[i])
                      THEN MergeStateWork(s.merging[i], IsizeMax, checks)
                      ELSE [slot |-> s.merging[i], panic |-> ""]]
        slots == [i \in 1..Len(s.merging) |-> worked[i].slot]
    IN  IF s.panic # "" THEN s
        ELSE IF \E i \in 1..Len(worked) : worked[i].panic # ""
        THEN [s EXCEPT !.merging = slots, !.panic = PanicShift]
        ELSE IF \E i \in 1..Len(slots) : is_inprogress(slots[i])
        THEN [s EXCEPT !.merging = slots, !.panic = PanicAssertMerges]
        ELSE [s EXCEPT !.merging = slots]

\* Batch::recede_to for the unit time: nothing to do
BatchRecedeTo(b) == b

\* Spine::map_batches_mut with f = |b| b.recede_to(frontier)
map_batches_mut(s) ==
    IF s.panic # "" THEN s
    ELSE IF \E i \in 1..Len(s.merging) : is_inprogress(s.merging[i])
    THEN Panicked(s, PanicMapInProgress)
    ELSE [s EXCEPT !.merging =
             [i \in 1..Len(s.merging) |->
                 LET m == s.merging[i]
                 IN  IF (is_complete(m) \/ is_single(m)) /\ m.batch.some
                     THEN [m EXCEPT !.batch = Some(BatchRecedeTo(m.batch.vals))]
                     ELSE m]]

\* Spine::recede_to
recede_to(s, checks) == map_batches_mut(complete_merges(s, checks))

\* A faulty variant of SlotBatches: a merge in progress exposes only its
\* first input.
SlotBatchesFirstInput(m) ==
    IF is_inprogress(m) THEN (IF m.batch1 # <<>> THEN <<m.batch1>> ELSE <<>>)
    ELSE IF (is_complete(m) \/ is_single(m)) /\ m.batch.some /\ m.batch.vals # <<>>
    THEN <<m.batch.vals>>
    ELSE <<>>

\* The batches Spine::cursor gathers from one slot.
SlotBatches(m) ==
    LET nonempty(b) == IF b # <<>> THEN <<b>> ELSE <<>>
    IN  IF is_inprogress(m) THEN nonempty(m.batch1) \o nonempty(m.batch2)
        ELSE IF (is_complete(m) \/ is_single(m)) /\ m.batch.some
        THEN nonempty(m.batch.vals)
        ELSE <<>>

\* Spine::cursor visiting the slots without .rev(): from level 0 up
RECURSIVE CursorStorageBottomUp(_, _)
CursorStorageBottomUp(ms, i) ==
    IF i = 0 THEN <<>> ELSE CursorStorageBottomUp(ms, i - 1) \o SlotBatches(ms[i])

\* Spine::cursor: the storage vector, slots visited from the top level down.
RECURSIVE CursorStorage(_, _)
CursorStorage(ms, i) ==
    IF i = 0 THEN <<>> ELSE SlotBatches(ms[i]) \o CursorStorage(ms, i - 1)

cursor(ms) == CursorStorage(ms, Len(ms))

\* Spine::consolidate: the loop `while !self.reduced() { self.exert(&mut fuel) }`
\* with fuel = isize::MAX (exert leaves its argument unchanged), cut after
\* `left` rounds.
PanicDiverged == "consolidate: still not reduced"

RECURSIVE ConsolidateLoop(_, _, _, _)
ConsolidateLoop(s, eff, checks, left) ==
    IF s.panic # "" \/ reduced(s) THEN s
    ELSE IF left = 0 THEN Panicked(s, PanicDiverged)
    ELSE ConsolidateLoop(exert([s EXCEPT !.rounds = s.rounds + 1], IsizeMax,
                               eff, checks),
                         eff, checks, left - 1)

\* The batch consolidate returns from the reduced spine: the first
\* Single(Some(batch)) with a non-empty batch, else None.
SoleBatch(ms) ==
    LET hits == {i \in 1..Len(ms) :
                    is_single(ms[i]) /\ ms[i].batch.some /\ ms[i].batch.vals # <<>>}
    IN  IF hits = {} THEN None
        ELSE ms[CHOOSE i \in hits : \A j \in hits : i <= j].batch


(***************************************************************************)
(* Spec: a Spine under insert, exert, recede_to, cursor and a final        *)
(* consolidate.                                                            *)
(***************************************************************************)
\* The batches drawn for insert: the first n keys, each inserted (+1) or
\* each retracted (-1), for every n up to MaxBatchLen; n = 0 is the empty
\* batch.
Batches == {[i \in 1..n |-> <<i, w>>] : n \in 0..MaxBatchLen, w \in DrawnWeights}

\* Spine::with_effort without `if effort == 0 { effort = 1 }`
with_effort_unclamped(e) == e

\* Spine::with_effort: zero effort is raised to one.
with_effort(e) == IF e = 0 THEN 1 ELSE e

\* Spine::new: with_effort(1, activator)
SpineNew == with_effort(1)

\* Antichains over the unit time (), whose only element is its minimum: an
\* antichain is {} or {Unit}.  meet keeps the minimal elements of both
\* sides, join the joins of their pairs.
Unit == "()"
AntichainNew == {}
AntichainFromElem(time) == {time}
Meet(a1, a2) == a1 \cup a2
Join(a1, a2) == {Unit : pair \in a1 \X a2}

\* the bounds OrdIndexedZSetBuilder::done gives every batch
BatchLower == AntichainFromElem(Unit)
BatchUpper == AntichainNew

\* The fields with_effort gives a Spine built from effort `arg`, with an
\* activator or without.
Constructed(arg, act) ==
    /\ merging = <<>>
    /\ effort_arg = arg
    /\ effort = with_effort(arg)
    /\ cursor_storage = <<>>
    /\ self_lower = AntichainFromElem(Unit)
    /\ self_upper = AntichainNew
    /\ activator = act
    /\ dirty = FALSE

\* a Spine just constructed, nothing done with it yet
Fresh ==
    /\ inserted = EmptyZSet
    /\ panic = ""
    /\ phase = "live"
    /\ inserts = 0
    /\ result = None
    /\ activated = 0
    /\ nonempty_since = FALSE
    /\ rounds = 0
    /\ held = NotHeld /\ seen = NotSeen
    /\ LeafIdle /\ AdvIdle /\ BldIdle /\ CurIdle /\ WorkIdle /\ CircIdle

\* A Spine of each effort from 1, without an activator; with_effort(0) and
\* the activator are in SpecTrace.
Init ==
    /\ overflow_checks \in BOOLEAN
    /\ \E arg \in 1..MaxEffort : Constructed(arg, FALSE)
    /\ last_op = "off"
    /\ steps = StepsOff
    /\ Fresh

Live == phase = "live" /\ panic = ""

\* the Spine an operation starts from; acts and rounds count what the
\* operation does; log is history, kept where steps.on is set
Self ==
    [merging |-> merging, panic |-> panic, acts |-> 0, rounds |-> 0,
     logging |-> steps.on, log |-> <<>>]

\* history: the calls of the operation that ended in s
Stepped(s) == [on |-> steps.on, log |-> s.log]

\* history: the operation is recorded where last_op is kept
Note(op) == IF last_op = "off" THEN "off" ELSE op

\* history: a mutating operation makes the cursor the caller holds stale
Staled(h) == IF h.made THEN [h EXCEPT !.stale = TRUE] ELSE h

\* the activate() calls of an operation that ended in s
Activations(s) == IF activator THEN s.acts ELSE 0

\* history: every merge in progress sees `n` more inserted records
BumpAges(s, n) ==
    [s EXCEPT !.merging =
        [i \in 1..Len(s.merging) |->
            LET m == s.merging[i]
            IN  IF is_inprogress(m) THEN [m EXCEPT !.age = m.age + n] ELSE m]]

\* Spine::insert returning without the check that reschedules
InsertForgets(s) == s

\* the end of Spine::insert: `if !self.reduced() { activator.activate() }`
InsertReschedule(s) == IF s.panic = "" /\ ~reduced(s) THEN Activate(s) ELSE s

\* Spine::insert, the level slots: an empty batch is ignored; else the batch
\* is introduced at level ceil(log2(len)).
SpineInsert(s, batch, eff, checks) ==
    IF IsEmpty(batch) THEN s
    ELSE InsertReschedule(
             introduce_batch(BumpAges(s, Len(batch)), Some(batch),
                             NextPowerOfTwoLog(Len(batch)), eff, checks))

\* Spine::insert marking the spine dirty before its empty-batch return
InsertDirtyAlways(d, batch) == TRUE

\* Spine::insert never setting the flag
InsertDirtyNever(d, batch) == d

\* Spine::insert, the dirty flag and the bounds
InsertDirty(d, batch) == IF IsEmpty(batch) THEN d ELSE TRUE
InsertLower(a, batch) == IF IsEmpty(batch) THEN a ELSE Meet(a, BatchLower)
InsertUpper(a, batch) == IF IsEmpty(batch) THEN a ELSE Join(a, BatchUpper)

\* the operation ended in s: the slots, the panic, the activate() calls
\* and the log it leaves
SpineLeft(s) ==
    /\ merging' = s.merging /\ panic' = s.panic
    /\ activated' = Activations(s)
    /\ steps' = Stepped(s)

InsertFrom(drawn, bound) ==
    \E batch \in drawn :
        /\ Live
        /\ inserts < bound
        /\ SpineLeft(SpineInsert(Self, batch, effort, overflow_checks))
        /\ cursor_storage' = <<>>
        /\ dirty' = InsertDirty(dirty, batch)
        /\ self_lower' = InsertLower(self_lower, batch)
        /\ self_upper' = InsertUpper(self_upper, batch)
        /\ inserted' = ZSetPlus(inserted, batch)
        /\ inserts' = inserts + 1
        /\ nonempty_since' = (nonempty_since \/ ~IsEmpty(batch))
        /\ last_op' = Note(IF IsEmpty(batch) THEN "insert_empty" ELSE "insert")
        /\ held' = Staled(held)
        /\ UNCHANGED <<overflow_checks, effort, phase, result, activator,
                       effort_arg, rounds, seen, notSpine>>

Insert == InsertFrom(Batches, MaxInserts)

Exert ==
    \E fuel \in 1..MaxFuel :
        /\ Live
        /\ SpineLeft(exert(Self, Fuel(fuel), effort, overflow_checks))
        /\ cursor_storage' = <<>>
        /\ last_op' = Note("exert")
        /\ held' = Staled(held)
        /\ UNCHANGED <<overflow_checks, effort, inserted, phase, inserts, result,
                       self_lower, self_upper, dirty, activator, effort_arg,
                       nonempty_since, rounds, seen, notSpine>>

\* recede_to ended in s
Receded(s) == merging' = s.merging /\ panic' = s.panic

RecedeTo ==
    /\ Live
    /\ Receded(recede_to(Self, overflow_checks))
    /\ cursor_storage' = <<>>
    /\ activated' = 0
    /\ steps' = steps
    /\ last_op' = Note(IF \E i \in 1..Len(merging) : is_inprogress(merging[i])
                        THEN "recede_to, merging" ELSE "recede_to")
    /\ held' = Staled(held)
    /\ UNCHANGED <<overflow_checks, effort, inserted, phase, inserts, result,
                   self_lower, self_upper, dirty, activator, effort_arg,
                   nonempty_since, rounds, seen, notSpine>>

Cursor ==
    /\ Live
    /\ cursor_storage' = cursor(merging)
    /\ activated' = 0
    /\ steps' = steps
    /\ last_op' = Note("cursor")
    /\ UNCHANGED <<overflow_checks, merging, effort, inserted, panic, phase,
                   inserts, result, self_lower, self_upper, dirty, activator, effort_arg,
                   nonempty_since, rounds, heldVars, notSpine>>

\* the loop of consolidate ended in s: the batch it returns, the panic, the
\* activate() calls and the rounds it ran
Consolidated(s) ==
    /\ panic' = s.panic
    /\ result' = IF s.panic = "" THEN SoleBatch(s.merging) ELSE None
    /\ activated' = Activations(s)
    /\ rounds' = s.rounds
    /\ steps' = Stepped(s)

Consolidate ==
    /\ Live
    /\ Consolidated(ConsolidateLoop(Self, effort, overflow_checks, MaxRounds))
    /\ merging' = <<>>
    /\ cursor_storage' = <<>>
    /\ phase' = "consolidated"
    /\ last_op' = Note("consolidate")
    /\ held' = Staled(held)
    /\ UNCHANGED <<overflow_checks, effort, inserted, inserts,
                   self_lower, self_upper, dirty, activator, effort_arg,
                   nonempty_since, seen, notSpine>>

Next ==
    \/ Insert
    \/ Exert
    \/ RecedeTo
    \/ Cursor
    \/ Consolidate

Spec == Init /\ [][Next]_vars

(***************************************************************************)
(* SpecLong: the same Spine with a long run of keys as its first batch;    *)
(* each batch after it retracts one key of the run, and the batches meet   *)
(* the run in a merge when the spine is consolidated.                      *)
(***************************************************************************)
LongBatch == Run(LongRunLen)
Retracted == {1, 2, LongRunLen - 1, LongRunLen}
LongBatchesAt(n) ==
    IF n = 0 THEN {LongBatch} ELSE {<<<<k, -1>>>> : k \in Retracted}

InsertLong == InsertFrom(LongBatchesAt(inserts), MaxLongInserts)

NextLong ==
    \/ InsertLong
    \/ RecedeTo
    \/ Cursor
    \/ Consolidate

SpecLong == Init /\ [][NextLong]_vars

(***************************************************************************)
(* SpecAdvance: advance applied to a slice of slice_len elements of which  *)
(* exactly the first prefix_len satisfy the predicate.                     *)
(***************************************************************************)
SliceLens == (0..MaxSliceLen) \cup {LongSliceLen - 1, LongSliceLen}

\* The predicate's values on the slice: true on the prefix, false after it.
MonotonePred(len, prefix) == [i \in 1..len |-> i <= prefix]

InitAdvance ==
    /\ overflow_checks \in BOOLEAN
    /\ slice_len \in SliceLens
    /\ prefix_len \in 0..slice_len
    /\ adv_out = NotCalled
    /\ SpineIdle /\ LeafIdle /\ BldIdle /\ CurIdle /\ WorkIdle /\ CircIdle

CallAdvance ==
    /\ ~adv_out.called
    /\ adv_out' = [called |-> TRUE] @@
                  Advance(MonotonePred(slice_len, prefix_len), overflow_checks) @@
                  AdvanceSteps(MonotonePred(slice_len, prefix_len), overflow_checks)
    /\ UNCHANGED <<overflow_checks, slice_len, prefix_len, spineAll, circVars, leafVars, bldVars,
                 curVars, workVars>>

NextAdvance == CallAdvance

SpecAdvance == InitAdvance /\ [][NextAdvance]_vars

(***************************************************************************)
(* SpecLeaf: merge and the addition operators applied to drawn leaves.     *)
(***************************************************************************)
InitLeaf ==
    /\ overflow_checks \in BOOLEAN
    /\ \/ /\ leaf1 \in SealedLeaves
          /\ leaf2 \in SealedLeaves
          /\ leaf3 \in SealedLeavesOver(MaxKey - 1)
       \/ \E p \in LongPairs \cup {<<SeedA, SeedB>>} :
              leaf1 = p[1] /\ leaf2 = p[2] /\ leaf3 = <<>>
    /\ leaf_op = ""
    /\ leaf_out = NoOutcome
    /\ SpineIdle /\ AdvIdle /\ BldIdle /\ CurIdle /\ WorkIdle /\ CircIdle

LeafApply(op, outcome) ==
    /\ leaf_op = ""
    /\ leaf_op' = op
    /\ leaf_out' = outcome
    /\ UNCHANGED <<overflow_checks, leaf1, leaf2, leaf3, spineAll, circVars, advVars, bldVars,
                 curVars, workVars>>

\* leaf1.merge(&leaf2)
CallMerge == LeafApply("merge", Merge(leaf1, leaf2, overflow_checks))

\* leaf1 + leaf2
CallAdd == LeafApply("add", Add(leaf1, leaf2, overflow_checks))

\* leaf1 += leaf2
CallAddAssign == LeafApply("add_assign", AddAssign(leaf1, leaf2, overflow_checks))

\* leaf1.add_assign_by_ref(&leaf2)
CallAddAssignByRef ==
    LeafApply("add_assign_by_ref", AddAssignByRef(leaf1, leaf2, overflow_checks))

\* leaf1.add_by_ref(&leaf2)
CallAddByRef == LeafApply("add_by_ref", AddByRef(leaf1, leaf2, overflow_checks))

\* second.merge(&first) after first = x.merge(&y), when that returned.
MergeThen(first, second, firstIsSelf) ==
    IF ~first.ok THEN first
    ELSE IF firstIsSelf THEN Merge(first.vals, second, overflow_checks)
    ELSE Merge(second, first.vals, overflow_checks)

\* leaf1.merge(&leaf2).merge(&leaf3)
CallMergeLeft ==
    LeafApply("merge_left",
              MergeThen(Merge(leaf1, leaf2, overflow_checks), leaf3, TRUE))

\* leaf1.merge(&leaf2.merge(&leaf3))
CallMergeRight ==
    LeafApply("merge_right",
              MergeThen(Merge(leaf2, leaf3, overflow_checks), leaf1, FALSE))

NextLeaf ==
    \/ CallMerge
    \/ CallAdd
    \/ CallAddAssign
    \/ CallAddAssignByRef
    \/ CallAddByRef
    \/ CallMergeLeft
    \/ CallMergeRight

SpecLeaf == InitLeaf /\ [][NextLeaf]_vars

(***************************************************************************)
(* SpecBuilder: tuples pushed in any order into an UnorderedLeafBuilder,   *)
(* at most one intermediate boundary(), then done().                       *)
(***************************************************************************)
PushedWeights == {-1, 0, 1}

InitBuilder ==
    /\ overflow_checks \in BOOLEAN
    /\ builder_vals = <<>> /\ boundary = 0      \* TupleBuilder::new
    /\ pushed = <<>> /\ sectioned = FALSE
    /\ built = NotBuilt
    /\ SpineIdle /\ LeafIdle /\ AdvIdle /\ CurIdle /\ WorkIdle /\ CircIdle

Builder == [vals |-> builder_vals, boundary |-> boundary]

BuilderPush ==
    \E k \in DrawnKeys, w \in PushedWeights :
        /\ ~built.done
        /\ Len(pushed) < MaxPushed
        /\ builder_vals' = PushTuple(Builder, <<k, w>>).vals
        /\ pushed' = Append(pushed, <<k, w>>)
        /\ UNCHANGED <<overflow_checks, boundary, sectioned, built,
                       spineAll, circVars, leafVars, advVars, curVars, workVars>>

BuilderBoundary ==
    /\ ~built.done
    /\ ~sectioned
    /\ builder_vals' = Boundary(Builder).vals
    /\ boundary' = Boundary(Builder).boundary
    /\ sectioned' = TRUE
    /\ UNCHANGED <<overflow_checks, pushed, built, spineAll, circVars, leafVars, advVars,
                 curVars, workVars>>

BuilderDone ==
    /\ ~built.done
    /\ built' = [done |-> TRUE, vals |-> Done(Builder)]
    /\ builder_vals' = Boundary(Builder).vals
    /\ boundary' = Boundary(Builder).boundary
    /\ UNCHANGED <<overflow_checks, pushed, sectioned, spineAll, circVars, leafVars, advVars,
                 curVars, workVars>>

NextBuilder ==
    \/ BuilderPush
    \/ BuilderBoundary
    \/ BuilderDone

SpecBuilder == InitBuilder /\ [][NextBuilder]_vars

(***************************************************************************)
(* Claims about the Spine.                                                 *)
(***************************************************************************)

\* What consolidate must return for the batches inserted: None when their
\* sum is the empty Z-set, else one batch that is the sealed leaf of the sum.
ReturnsSum ==
    IF inserted = EmptyZSet THEN result = None
    ELSE result.some /\ IsLeafOf(result.vals, inserted)

\* C1: after any sequence of insert and exert calls a final consolidate()
\* returns None when the sum of the inserted batches is the empty Z-set and
\* otherwise one batch equal as a Z-set to that sum.
C1_ConsolidateReturnsSum ==
    phase = "consolidated" => panic = "" /\ ReturnsSum

\* consolidate is right whenever it returns.
ConsolidateRightWhenReturns ==
    phase = "consolidated" /\ panic = "" => ReturnsSum

\* The spine ends in a panic only in a build with overflow checks, by the
\* shift of advance.
PanicsOnlyOnShift ==
    panic # "" => panic = PanicShift /\ overflow_checks

\* C2: after any interleaving of insert, exert and recede_to the batches
\* gathered by cursor() sum to exactly the sum of all batches inserted so
\* far; no tuple vanishes or counts twice whatever the merge progress.
C2_CursorSumsInserted ==
    Live =>
        /\ ZSetSum(cursor(merging), Len(cursor(merging))) = inserted
        /\ cursor_storage # <<>> =>
               ZSetSum(cursor_storage, Len(cursor_storage)) = inserted

\* Witness of C2: a cursor taken while a merge is in progress above a
\* further batch.
C2_Witness ==
    /\ Live
    /\ Len(cursor_storage) >= 3
    /\ \E i \in 1..Len(merging) : is_inprogress(merging[i])

\* C3: every slot that receives a batch is Vacant or Single at that moment:
\* insert_at never panics with "Attempted to insert batch into incomplete
\* merge!".
C3_InsertAtNeverPanics == panic # PanicIncomplete

\* A batch with a weight no drawn batch carries: the result of a merge.
IsMerged(b) == \E j \in 1..Len(b) : Weight(b[j]) \notin DrawnWeights

\* Witness of C3: the result of a completed merge was promoted and met
\* another batch in the slot that received it, where a merge began.
C3_Witness ==
    /\ Live
    /\ \E i \in 2..Len(merging) :
           /\ is_inprogress(merging[i])
           /\ IsMerged(merging[i].batch1) \/ IsMerged(merging[i].batch2)

\* The batches held in a slot.
HeldBatches(m) ==
    IF is_inprogress(m) THEN {m.batch1, m.batch2}
    ELSE IF (is_single(m) \/ is_complete(m)) /\ m.batch.some THEN {m.batch.vals}
    ELSE {}

\* C4: between public operations every batch held at level k (of a Single,
\* either input of a merge in progress, the batch of a completed merge) has
\* at most 2^k tuples.
C4_BatchesFitLevel ==
    Live => \A i \in 1..Len(merging) :
                \A b \in HeldBatches(merging[i]) : Len(b) <= Pow2(i - 1)

\* The batches that are not the result of a completed merge do fit.
UnmergedBatchesFitLevel ==
    Live => \A i \in 1..Len(merging) :
                ~is_complete(merging[i]) =>
                    \A b \in HeldBatches(merging[i]) : Len(b) <= Pow2(i - 1)

\* The nominal number of records at the levels below level k: 2^i for a
\* Single at level i, 2 * 2^i for a Double.
RECURSIVE NominalBelow(_)
NominalBelow(k) ==
    IF k = 0 THEN 0
    ELSE NominalBelow(k - 1)
         + (IF merging[k].tag = "Single" THEN Pow2(k - 1)
            ELSE IF merging[k].tag = "Double" THEN 2 * Pow2(k - 1)
            ELSE 0)

\* C5: between public operations, below a merge in progress at level k the
\* nominal number of records does not exceed 2^k.
C5_NominalBelowMerge ==
    Live => \A i \in 1..Len(merging) :
                is_inprogress(merging[i]) => NominalBelow(i - 1) <= Pow2(i - 1)

\* Witness of C5: a merge in progress above a level that holds records.
C5_Witness ==
    /\ Live
    /\ \E i \in 1..Len(merging) :
           is_inprogress(merging[i]) /\ NominalBelow(i - 1) > 0

\* C6: a merge in progress at level k is completed before 2^k further
\* records have been introduced by later insert calls.
C6_MergeCompletesInTime ==
    \A i \in 1..Len(merging) :
        is_inprogress(merging[i]) => merging[i].age < Pow2(i - 1)

\* Witness of C6: the result of a merge that completed stands as a Single
\* while a merge that began after it is in progress.
C6_Witness ==
    /\ Live
    /\ \E i \in 1..Len(merging) :
           is_single(merging[i]) /\ merging[i].batch.some
           /\ IsMerged(merging[i].batch.vals)
    /\ \E i \in 1..Len(merging) : is_inprogress(merging[i])

(***************************************************************************)
(* Claims about the pure functions.                                        *)
(***************************************************************************)

\* C9: for every slice and every predicate that stays false once false,
\* advance returns the length of the maximal prefix on which the predicate
\* holds (what take_while(pred).count() gives), for every slice length.
C9_AdvanceCountsPrefix ==
    adv_out.called => adv_out.ok /\ adv_out.n = prefix_len

\* advance does return the prefix length whenever it returns.
AdvanceRightWhenReturns ==
    adv_out.called /\ adv_out.ok => adv_out.n = prefix_len

\* advance returns unless the build checks overflow and the prefix reaches
\* the probe after the step 2048.
AdvancePanicsOnlyOnLongPrefix ==
    adv_out.called /\ ~adv_out.ok => overflow_checks /\ prefix_len >= LongSliceLen

\* The weight of key k in the sum of the Z-sets of leaf1 and leaf2.
SumWeight12(k) == WeightIn(leaf1, k) + WeightIn(leaf2, k)

\* C7: merge of two sealed leaves returns the leaf in which every key
\* carries the sum of its two weights, exactly the keys with a non-zero sum
\* are present and keys are strictly ascending, runs longer than the
\* run-copy cap included; the seed leaves merge to [(1,+1),(3,+2),(4,+1)].
C7_MergeSumsWeights ==
    leaf_op = "merge" =>
        /\ leaf_out.ok
        /\ LeafDenotes(leaf_out.vals, KeysOf(leaf1) \cup KeysOf(leaf2), SumWeight12)
        /\ (leaf1 = SeedA /\ leaf2 = SeedB => leaf_out.vals = SeedMerged)

\* merge is right whenever it returns.
MergeRightWhenReturns ==
    leaf_op = "merge" /\ leaf_out.ok =>
        /\ LeafDenotes(leaf_out.vals, KeysOf(leaf1) \cup KeysOf(leaf2), SumWeight12)
        /\ (leaf1 = SeedA /\ leaf2 = SeedB => leaf_out.vals = SeedMerged)

\* Two outcomes agree: both panicked, or both returned the same leaf.
SameOutcome(x, y) == x.ok = y.ok /\ (x.ok => x.vals = y.vals)

RECURSIVE PushedWeight(_, _)
PushedWeight(seq, k) ==
    IF seq = <<>> THEN 0
    ELSE (IF Key(seq[Len(seq)]) = k THEN Weight(seq[Len(seq)]) ELSE 0)
         + PushedWeight(SubSeq(seq, 1, Len(seq) - 1), k)

PushedSum(k) == PushedWeight(pushed, k)

\* C10: tuples pushed in any order with no intermediate boundary(): done()
\* returns a leaf with strictly ascending unique keys, no zero weight, and
\* for each key the sum of the weights pushed for it.
C10_DoneConsolidates ==
    built.done /\ ~sectioned => LeafDenotes(built.vals, DrawnKeys, PushedSum)

\* Witness of C10: out-of-order pushes with a repeated key and a key whose
\* weights cancel were sealed.
C10_Witness ==
    /\ built.done /\ ~sectioned
    /\ Len(pushed) = MaxPushed
    /\ Len(built.vals) = 1
    /\ \E i \in 1..(Len(pushed) - 1) : Key(pushed[i]) > Key(pushed[i + 1])
    /\ \E k \in DrawnKeys : PushedSum(k) = 0 /\ \E i \in 1..Len(pushed) :
           Key(pushed[i]) = k /\ Weight(pushed[i]) # 0

(***************************************************************************)
(* SpecCursor: an OrderedLeafCursor made by cursor_from over a leaf, under *)
(* step, seek and rewind.                                                  *)
(***************************************************************************)
\* OrderedLeaf::cursor_from
cursor_from(lo, hi) == [pos |-> lo, bounds |-> <<lo, hi>>]

\* Cursor::valid
valid(c) == c.pos < c.bounds[2]

\* OrderedLeafCursor::seek_key on the outcome `a` of
\* advance(&storage.vals[self.pos..self.bounds.1], |(k, _)| k.lt(key))
SeekAdvanced(c, a) ==
    IF a.ok THEN [cursor |-> [c EXCEPT !.pos = c.pos + a.n], panic |-> ""]
    ELSE [cursor |-> c, panic |-> PanicShift]

seek_key(c, storage, key, checks) ==
    SeekAdvanced(c, Advance(LessThanKey(Slice(storage, c.pos, c.bounds[2]), key),
                            checks))

\* Cursor::seek: seek_key on the key of the (key, weight) pair
seek(c, storage, key, checks) == seek_key(c, storage, key, checks)

\* Cursor::step without its `if !self.valid(storage)` branch
step_unclamped(c) == [c EXCEPT !.pos = c.pos + 1]

\* Cursor::step
step(c) ==
    LET moved == [c EXCEPT !.pos = c.pos + 1]
    IN  IF ~valid(moved) THEN [moved EXCEPT !.pos = c.bounds[2]] ELSE moved

\* Cursor::rewind
rewind(c) == [c EXCEPT !.pos = c.bounds[1]]

\* The leaves walked: every sealed leaf over the drawn keys, a run long
\* enough for advance to gallop and one long enough for all its probes.
CursorLeaves == SealedLeaves \cup {Run(MaxSliceLen), Run(LongRunLen)}

\* The ranges [lo, hi) a cursor is made over: every range of a short leaf,
\* the ends of a long one.
CursorBounds(leaf) ==
    IF Len(leaf) <= MaxKey
    THEN {b \in (0..Len(leaf)) \X (0..Len(leaf)) : b[1] <= b[2]}
    ELSE {0, 1} \X {Len(leaf) - 1, Len(leaf)}

\* The keys sought: below, at and above every key of a short leaf; near
\* both ends of a long one, and just past small_limit.
SeekKeys(leaf) ==
    IF Len(leaf) <= MaxKey THEN 0..(MaxKey + 1)
    ELSE {1, small_limit + 2, Len(leaf) - 1, Len(leaf), Len(leaf) + 1}

InitCursor ==
    /\ overflow_checks \in BOOLEAN
    /\ cur_storage \in CursorLeaves
    /\ \E b \in CursorBounds(cur_storage) : leaf_cursor = cursor_from(b[1], b[2])
    /\ cur_before = leaf_cursor
    /\ cur_op = "cursor_from" /\ cur_key = 0 /\ cur_ops = 0
    /\ cur_panic = ""
    /\ SpineIdle /\ LeafIdle /\ AdvIdle /\ BldIdle /\ WorkIdle /\ CircIdle

CursorApply(op, key, outcome) ==
    /\ cur_panic = ""
    /\ cur_ops < MaxCursorOps
    /\ leaf_cursor' = outcome.cursor
    /\ cur_panic' = outcome.panic
    /\ cur_before' = leaf_cursor
    /\ cur_op' = op
    /\ cur_key' = key
    /\ cur_ops' = cur_ops + 1
    /\ UNCHANGED <<overflow_checks, cur_storage, spineAll, circVars, leafVars, advVars,
                   bldVars, workVars>>

CallStep == CursorApply("step", 0, [cursor |-> step(leaf_cursor), panic |-> ""])

CallSeek ==
    \E key \in SeekKeys(cur_storage) :
        CursorApply("seek", key, seek(leaf_cursor, cur_storage, key, overflow_checks))

CallRewind == CursorApply("rewind", 0, [cursor |-> rewind(leaf_cursor), panic |-> ""])

NextCursor ==
    \/ CallStep
    \/ CallSeek
    \/ CallRewind

SpecCursor == InitCursor /\ [][NextCursor]_vars

(***************************************************************************)
(* OrderedLeafCursor::seek.                                                *)
(***************************************************************************)
\* The first position at or after `from` and below `hi` whose key is >= key,
\* or hi when there is none.
FirstAtLeast(storage, from, hi, key) ==
    LET hits == {p \in from..(hi - 1) : Key(storage[p + 1]) >= key}
    IN  IF hits = {} THEN hi ELSE CHOOSE p \in hits : \A q \in hits : p <= q

\* what the contract of seek asks of a seek that was called
SeekLandsRight ==
    /\ leaf_cursor.pos =
           FirstAtLeast(cur_storage, cur_before.pos, cur_before.bounds[2], cur_key)
    /\ leaf_cursor.pos >= cur_before.pos
    /\ leaf_cursor.bounds = cur_before.bounds
    /\ (valid(cur_before) /\ Key(cur_storage[cur_before.pos + 1]) >= cur_key
            => leaf_cursor = cur_before)

\* C11: seek(k) returns with the cursor on the first position at or after
\* its position before the call whose key is >= k, or at the upper bound
\* when there is none; it never moves the cursor backward, and leaves it
\* alone when the key under it is already >= k.
C11_SeekFindsFirstAtLeast ==
    cur_op = "seek" => cur_panic = "" /\ SeekLandsRight

\* A seek that returns is right.
SeekRightWhenReturns ==
    cur_op = "seek" /\ cur_panic = "" => SeekLandsRight

\* A seek panics only in a build with overflow checks, when at least
\* LongSliceLen keys smaller than the sought key lie ahead of the cursor.
SeekPanicsOnlyOnLongPrefix ==
    cur_op = "seek" /\ cur_panic # "" =>
        /\ overflow_checks
        /\ cur_panic = PanicShift
        /\ FirstAtLeast(cur_storage, cur_before.pos, cur_before.bounds[2], cur_key)
               - cur_before.pos >= LongSliceLen

\* a seek that moved the cursor over some keys and stopped before the end
SeekMovedInside ==
    /\ cur_op = "seek" /\ cur_panic = ""
    /\ leaf_cursor.pos > cur_before.pos
    /\ valid(leaf_cursor)

(***************************************************************************)
(* The OrderedLeafCursor under step, seek and rewind.                      *)
(***************************************************************************)
\* C12: after any sequence of step, seek and rewind on a cursor made over
\* [lower, upper) with lower <= upper: lower <= pos <= upper; valid() is
\* pos < upper; step moves a valid cursor forward by exactly one key; an
\* invalid cursor stays at upper under step and seek; rewind puts the cursor
\* at lower.
C12_CursorStaysInBounds ==
    /\ leaf_cursor.bounds[1] <= leaf_cursor.pos
    /\ leaf_cursor.pos <= leaf_cursor.bounds[2]
    /\ leaf_cursor.bounds = cur_before.bounds
    /\ valid(leaf_cursor) <=> leaf_cursor.pos < leaf_cursor.bounds[2]
    /\ (cur_op = "step" /\ valid(cur_before) =>
            leaf_cursor.pos = cur_before.pos + 1)
    /\ (cur_op \in {"step", "seek"} /\ ~valid(cur_before) =>
            leaf_cursor.pos = leaf_cursor.bounds[2])
    /\ (cur_op = "rewind" => leaf_cursor.pos = leaf_cursor.bounds[1])

\* a cursor stepped off its last key, then stepped again
C12_Witness ==
    /\ cur_op = "step" /\ cur_ops >= 2
    /\ ~valid(cur_before) /\ ~valid(leaf_cursor)
    /\ cur_before.bounds[1] < cur_before.bounds[2]
    /\ cur_before.bounds[2] < Len(cur_storage)

(***************************************************************************)
(* SpecTrace: a Spine of any effort from 0, with an activator or without,  *)
(* under every operation of Trace, clear_dirty_flag included; the last     *)
(* operation is recorded.                                                  *)
(***************************************************************************)
InitTrace ==
    /\ overflow_checks \in BOOLEAN
    /\ \E arg \in 0..MaxEffort, act \in BOOLEAN : Constructed(arg, act)
    /\ last_op = "new"
    /\ steps = StepsOff
    /\ Fresh

InsertTrace == InsertFrom(Batches, MaxTraceInserts)

\* Spine::clear_dirty_flag
ClearDirtyFlag ==
    /\ Live
    /\ dirty' = FALSE
    /\ nonempty_since' = FALSE
    /\ activated' = 0
    /\ steps' = steps
    /\ last_op' = Note("clear_dirty_flag")
    /\ UNCHANGED <<overflow_checks, spineVars, self_lower, self_upper, activator,
                   effort_arg, rounds, heldVars, notSpine>>

NextTrace ==
    \/ InsertTrace
    \/ Exert
    \/ RecedeTo
    \/ Cursor
    \/ ClearDirtyFlag
    \/ Consolidate

SpecTrace == InitTrace /\ [][NextTrace]_vars

(***************************************************************************)
(* Spine::insert of an empty batch.                                        *)
(***************************************************************************)
\* C13: an insert of a batch with len() = 0 leaves the level slots, lower,
\* upper and the dirty flag as they were and does not call the activator.
C13_EmptyInsertIgnored ==
    [][InsertFrom({<<>>}, MaxTraceInserts) =>
          /\ merging' = merging
          /\ self_lower' = self_lower
          /\ self_upper' = self_upper
          /\ dirty' = dirty
          /\ activated' = 0]_vars

\* an empty batch was inserted into a spine with an activator that holds a
\* batch and has its dirty flag cleared
C13_Witness ==
    /\ last_op = "insert_empty"
    /\ activator /\ ~dirty
    /\ inserted # EmptyZSet
    /\ \E i \in 1..Len(merging) : MergeStateLen(merging[i]) > 0

(***************************************************************************)
(* The dirty flag.                                                         *)
(***************************************************************************)
\* C14: dirty() is true iff a non-empty batch has been inserted since
\* construction or since the last clear_dirty_flag(); exert, recede_to and
\* cursor leave the flag alone.
C14_DirtyIffInsertedSince ==
    dirty <=> nonempty_since

\* the flag stays clear over an exert on a spine that holds batches
C14_Witness ==
    /\ last_op = "exert"
    /\ ~dirty
    /\ inserted # EmptyZSet

\* the flag stays set over a recede_to
DirtyKeptByRecedeTo ==
    /\ last_op \in {"recede_to", "recede_to, merging"}
    /\ dirty

(***************************************************************************)
(* The effort of a Spine.                                                  *)
(***************************************************************************)
\* C15: a Spine built with_effort(0) has effort 1, the effort of
\* with_effort(1), so the two are the same Spine; effort >= 1 in every
\* reachable state; Spine::new uses effort 1.
C15_EffortAtLeastOne ==
    /\ effort >= 1
    /\ effort = with_effort(effort_arg)
    /\ (effort_arg = 0 => effort = with_effort(1) /\ effort = 1)
    /\ SpineNew = 1

\* a Spine built with_effort(0) that has a merge in progress
C15_Witness ==
    /\ effort_arg = 0 /\ effort = 1
    /\ \E i \in 1..Len(merging) : is_inprogress(merging[i])

(***************************************************************************)
(* SpecWork: one call of Merger::work on a new merger of two drawn         *)
(* batches, with a drawn fuel.                                             *)
(***************************************************************************)
\* *fuel on entry: negative, zero and positive values, the least isize and
\* the values just above it, and the greatest.
WorkFuels ==
    {Fuel(n) : n \in (0 - MaxFuel)..MaxFuel}
        \cup {IsizeMinPlus(n) : n \in 0..MaxFuel} \cup {IsizeMax}

InitWork ==
    /\ overflow_checks \in BOOLEAN
    /\ \E pair \in (SealedLeaves \X SealedLeaves) \cup LongPairs :
           leaf1 = pair[1] /\ leaf2 = pair[2]
    /\ leaf3 = <<>> /\ leaf_op = "idle" /\ leaf_out = NoOutcome
    /\ work_fuel \in WorkFuels
    /\ work_out = NoWork
    /\ SpineIdle /\ AdvIdle /\ BldIdle /\ CurIdle /\ CircIdle

\* Merger::new(batch1, batch2), then work(batch1, batch2, &mut fuel)
CallWork ==
    /\ ~work_out.called
    /\ work_out' = [called |-> TRUE] @@
                   MergerWork(MergerNew, leaf1, leaf2, work_fuel, overflow_checks)
    /\ UNCHANGED <<overflow_checks, work_fuel, spineAll, circVars, leafVars, advVars,
                   bldVars, curVars>>

NextWork == CallWork

SpecWork == InitWork /\ [][NextWork]_vars

(***************************************************************************)
(* The fuel Merger::work charges.                                          *)
(***************************************************************************)
\* The tuples a merge of two sealed leaves copies or compares: a tuple whose
\* key is in one source only is copied; two tuples of equal key are
\* compared, one unit for the pair at the least.
TuplesTouched(source1, source2) ==
    Cardinality(KeysOf(source1) \cup KeysOf(source2))

\* C16: a call of work that returns has taken from fuel, before the clamp,
\* one unit for every tuple it copied or compared.
C16_FuelChargedPerTuple ==
    work_out.called /\ work_out.ok =>
        work_out.charge >= TuplesTouched(leaf1, leaf2)

\* What is charged is the length of the merged result: the tuples copied
\* and the pairs of equal key whose weights did not cancel.
ChargeIsResultLength ==
    work_out.called /\ work_out.ok =>
        /\ work_out.charge = Len(work_out.result)
        /\ work_out.charge =
               Cardinality({k \in KeysOf(leaf1) \cup KeysOf(leaf2) :
                               WeightAt(leaf1, k) + WeightAt(leaf2, k) # 0})

(***************************************************************************)
(* The fuel after Merger::work.                                            *)
(***************************************************************************)
\* C17: a call of work ends with fuel >= 1, whatever the fuel on entry, and
\* with progress made on the merge.
C17_FuelClampedAndProgress ==
    work_out.called =>
        /\ work_out.ok
        /\ FuelPositive(work_out.fuel)
        /\ (leaf1 # <<>> \/ leaf2 # <<>> => work_out.result # <<>>
                \/ ZSetPlus(ZSetPlus(EmptyZSet, leaf1), leaf2) = EmptyZSet)

\* A call of work that returns leaves fuel >= 1 and the merge complete.
WorkRightWhenReturns ==
    work_out.called /\ work_out.ok =>
        /\ FuelPositive(work_out.fuel)
        /\ IsLeafOf(work_out.result, ZSetPlus(ZSetPlus(EmptyZSet, leaf1), leaf2))

\* A call of work panics only with overflow checks: on the shift of advance
\* (long runs), or on the subtraction when fuel on entry is less than
\* isize::MIN plus the length of the result.
WorkPanicsOnlyOnOverflow ==
    work_out.called /\ ~work_out.ok =>
        /\ overflow_checks
        /\ \/ work_out.panic = PanicShift /\ Len(leaf1) + Len(leaf2) > LongSliceLen
           \/ work_out.panic = PanicSub /\ work_fuel.min

(***************************************************************************)
(* Spine::recede_to.                                                       *)
(***************************************************************************)
\* C18: recede_to completes every merge in progress before map_batches_mut
\* runs, so neither the fatal error of map_batches_mut on an in-progress
\* slot nor the assertion of complete_merges is reached, and the Z-set the
\* spine holds is the same after the call as before it.
C18_RecedeToCompletesMerges ==
    [][RecedeTo =>
          /\ panic' \notin {PanicMapInProgress, PanicAssertMerges}
          /\ panic' = "" =>
                /\ \A i \in 1..Len(merging') : ~is_inprogress(merging'[i])
                /\ ZSetSum(cursor(merging'), Len(cursor(merging')))
                       = ZSetSum(cursor(merging), Len(cursor(merging)))]_vars

\* a recede_to met a merge in progress and left its result in the slot
C18_Witness ==
    /\ Live
    /\ last_op = "recede_to, merging"
    /\ \E i \in 1..Len(merging) :
           /\ is_complete(merging[i])
           /\ merging[i].batch.some /\ IsMerged(merging[i].batch.vals)

(***************************************************************************)
(* Termination of Spine::consolidate.                                      *)
(***************************************************************************)
\* C19: from every reachable state the loop of consolidate,
\* `while !self.reduced() { self.exert(&mut fuel) }` with fuel isize::MAX,
\* ends: it is never still unreduced after MaxRounds calls of exert.
C19_ConsolidateTerminates ==
    /\ panic # PanicDiverged
    /\ rounds <= MaxRounds

\* consolidate returned a batch after its loop called exert three times or
\* more
C19_Witness ==
    /\ phase = "consolidated" /\ panic = ""
    /\ rounds >= 3
    /\ result.some

(***************************************************************************)
(* SpecHeld: a Spine whose caller keeps the SpineCursor of one cursor()    *)
(* call and reads its key later, other operations in between.  The cursor  *)
(* holds positions only; every method of it is handed the spine and reads  *)
(* spine.cursor_storage as it is then.  consolidate takes the spine by     *)
(* value, so no cursor can be used after it.                               *)
(***************************************************************************)
PanicIndex == "index out of bounds"

\* The sub-cursor the list is on: the first among the valid sub-cursors whose
\* key is least, 0 when none is valid.
MinKeyIndex(cursors, storage) ==
    LET live == {i \in 1..Len(cursors) : valid(cursors[i])}
        key(i) == Key(storage[i][cursors[i].pos + 1])
        least == {i \in live : \A j \in live : key(i) <= key(j)}
    IN  IF live = {} THEN 0 ELSE CHOOSE i \in least : \A j \in least : i <= j

\* CursorList::new on the cursors gathered by Spine::cursor.  `stale` and
\* `keys` are history: a mutation came since, and the keys the spine held
\* when the cursor was made.
CursorListNew(cursors, storage) ==
    [made |-> TRUE, cursors |-> cursors,
     min_key |-> MinKeyIndex(cursors, storage), stale |-> FALSE,
     keys |-> UNION {KeysOf(storage[i]) : i \in 1..Len(storage)}]

\* SpineCursor::new on the storage Spine::cursor has just gathered: one
\* batch.cursor() per batch
SpineCursorNew(storage) ==
    CursorListNew([i \in 1..Len(storage) |-> cursor_from(0, Keys(storage[i]))],
                  storage)

\* SpineCursor::key_valid, then key: the list's current sub-cursor reads the
\* storage handed in, &storage[i].vals[pos], with checked indexing.
SpineCursorKey(h, storage) ==
    IF h.min_key = 0
    THEN [called |-> TRUE, panic |-> FALSE, valid |-> FALSE, key |-> 0,
          stale |-> h.stale]
    ELSE IF \/ h.min_key > Len(storage)
            \/ h.cursors[h.min_key].pos >= Len(storage[h.min_key])
    THEN [called |-> TRUE, panic |-> TRUE, valid |-> TRUE, key |-> 0,
          stale |-> h.stale]
    ELSE [called |-> TRUE, panic |-> FALSE, valid |-> TRUE,
          key |-> Key(storage[h.min_key][h.cursors[h.min_key].pos + 1]),
          stale |-> h.stale]

\* every sealed leaf over the drawn keys is inserted
InsertHeld == InsertFrom(SealedLeaves, MaxHeldInserts)

Took(storage) ==
    /\ cursor_storage' = storage
    /\ held' = SpineCursorNew(storage)

\* Spine::cursor, the caller keeping the SpineCursor
TakeCursor ==
    /\ Live
    /\ ~held.made
    /\ Took(cursor(merging))
    /\ activated' = 0
    /\ steps' = steps
    /\ last_op' = Note("cursor")
    /\ UNCHANGED <<overflow_checks, merging, effort, inserted, panic, phase,
                   inserts, result, self_lower, self_upper, dirty, activator,
                   effort_arg, nonempty_since, rounds, seen, notSpine>>

\* key_valid() and key() on the kept cursor; a panic ends the program
UseHeld ==
    /\ Live
    /\ held.made
    /\ seen' = SpineCursorKey(held, cursor_storage)
    /\ panic' = IF seen'.panic THEN PanicIndex ELSE panic
    /\ UNCHANGED <<overflow_checks, merging, effort, cursor_storage, inserted,
                   phase, inserts, result, flagVars, held, notSpine>>

NextHeld ==
    \/ InsertHeld
    \/ Exert
    \/ RecedeTo
    \/ Cursor
    \/ TakeCursor
    \/ UseHeld

SpecHeld == Init /\ [][NextHeld]_vars

(***************************************************************************)
(* Use of a SpineCursor after a mutation of its spine.                     *)
(***************************************************************************)
\* C20: a SpineCursor used after insert, exert or recede_to on its spine is
\* detected: it returns no key read from the spine's later state, also when
\* a newer cursor() call has refilled cursor_storage in between.
C20_StaleCursorDetected ==
    seen.called /\ seen.stale => seen.panic \/ ~seen.valid

\* The least key of the batches Spine::cursor gathers now, 0 when there is
\* none.
LeastKeyNow ==
    LET keys == UNION {KeysOf(cursor(merging)[i]) : i \in 1..Len(cursor(merging))}
    IN  IF keys = {} THEN 0 ELSE CHOOSE k \in keys : \A j \in keys : k <= j

\* A cursor used before any mutation reads its own snapshot: no panic, and
\* the key is the least key of the batches in the spine.
FreshCursorReadsSnapshot ==
    seen.called /\ ~seen.stale /\ ~held.stale =>
        /\ ~seen.panic
        /\ seen.valid <=> LeastKeyNow # 0
        /\ seen.key = LeastKeyNow

\* A stale cursor is noticed only by the bounds checks of indexing, when
\* cursor_storage was not refilled or holds a shorter batch at its index.
StalePanicsOnlyOnIndex ==
    seen.called /\ seen.panic => seen.stale /\ panic = PanicIndex

\* a stale cursor returned a key that the spine did not hold when the
\* cursor was made, after a newer cursor() refilled the storage
StaleCursorReadLaterState ==
    /\ seen.called /\ seen.stale /\ ~seen.panic /\ seen.valid
    /\ seen.key \notin held.keys

(***************************************************************************)
(* SpecIntegrate: Stream::integrate (operator/integrate.rs) over a stream  *)
(* of scalars or of Z-sets.  The circuit is one Plus whose first input is  *)
(* the output of a delayed feedback and whose second input is the stream;  *)
(* the feedback is connected to the output of the Plus.  Plus and the      *)
(* delay z^-1 are operators outside the source files: Plus adds its inputs *)
(* with the addition of D, z^-1 gives zero at the first step and at every  *)
(* later step the value it was fed at the step before.  A Z-set is the     *)
(* OrderedLeaf of its batch, added by the impls of ordered_leaf.rs; a      *)
(* scalar is an integer (overflow is left to the weight type).             *)
(***************************************************************************)
\* HasZero::zero() of D
Zero(kind) == IF kind = "scalar" THEN 0 ELSE <<>>

\* The addition Plus ends in, by the ownership of its two inputs.
PlusPaths == {"add", "add_assign", "add_assign_by_ref", "add_by_ref"}

\* the outcome [ok, vals] of a leaf addition as a stream value [ok, val]
Output(r) == [ok |-> r.ok, val |-> r.vals]

\* Plus::eval and its owned variants
PlusEval(kind, how, i1, i2, checks) ==
    IF kind = "scalar" THEN [ok |-> TRUE, val |-> i1 + i2]
    ELSE IF how = "add" THEN Output(Add(i1, i2, checks))
    ELSE IF how = "add_assign" THEN Output(AddAssign(i1, i2, checks))
    ELSE IF how = "add_assign_by_ref" THEN Output(AddAssignByRef(i1, i2, checks))
    ELSE Output(AddByRef(i1, i2, checks))

\* integrate with the feedback connected to the input stream
FeedbackConnectInput(integral, input) == input

\* feedback.connect(&integral): the value the delay holds for the next step
FeedbackConnect(integral, input) == integral

\* The values drawn for step n of the stream.
ScalarInputs == {-1, 0, 1, 2}
ZSetInputs(n) ==
    SealedLeavesOver(MaxStreamKey)
        \cup (IF n = 0 THEN {Run(LongRunLen)} ELSE {<<<<LongRunLen, 1>>>>})
StreamInputs(kind, n) == IF kind = "scalar" THEN ScalarInputs ELSE ZSetInputs(n)

InitIntegrate ==
    /\ overflow_checks \in BOOLEAN
    /\ int_kind \in {"scalar", "zset"}
    /\ int_z1 = Zero(int_kind)
    /\ int_out = NoOutput
    /\ int_fed = <<>>
    /\ SpineIdle /\ LeafIdle /\ AdvIdle /\ BldIdle /\ CurIdle /\ WorkIdle
    /\ NestIdle /\ IterIdle /\ FpIdle /\ SortIdle /\ IdxIdle

\* One step of the circuit on `input`, the Plus having given `out`.
Integrated(input, out) ==
    /\ int_out' = out
    /\ int_z1' = IF out.ok THEN FeedbackConnect(out.val, input) ELSE int_z1
    /\ int_fed' = Append(int_fed, input)
    /\ UNCHANGED <<overflow_checks, int_kind, spineAll, leafVars, advVars, bldVars,
                   curVars, workVars, nestVars, iterVars, fpVars, sortVars, idxVars>>

\* root.step(): integral = Plus(feedback.stream(), self)
IntegrateStep ==
    \E input \in StreamInputs(int_kind, Len(int_fed)), how \in PlusPaths :
        /\ int_out.ok
        /\ Len(int_fed) < MaxSteps
        /\ Integrated(input, PlusEval(int_kind, how, int_z1, input, overflow_checks))

NextIntegrate == IntegrateStep

SpecIntegrate == InitIntegrate /\ [][NextIntegrate]_vars

(***************************************************************************)
(* C21: integrate outputs the running sum of its input.                    *)
(***************************************************************************)
\* the sum of the scalars of a sequence
RECURSIVE ScalarSum(_, _)
ScalarSum(seq, n) == IF n = 0 THEN 0 ELSE ScalarSum(seq, n - 1) + seq[n]

\* the sum over a sequence of leaves of the weight each gives key k
RECURSIVE WeightSum(_, _, _)
WeightSum(seq, n, k) ==
    IF n = 0 THEN 0 ELSE WeightSum(seq, n - 1, k) + WeightAt(seq[n], k)

\* every key of the inputs so far
FedKeys == UNION {KeysOf(int_fed[i]) : i \in 1..Len(int_fed)}

\* the output of the last step is the sum of the inputs of all steps so far
IntegralIsSum ==
    IF int_kind = "scalar" THEN int_out.val = ScalarSum(int_fed, Len(int_fed))
    ELSE /\ Sealed(int_out.val)
         /\ KeysOf(int_out.val) \subseteq FedKeys
         /\ \A k \in FedKeys :
                WeightAt(int_out.val, k) = WeightSum(int_fed, Len(int_fed), k)

\* C21: at every step n the output of stream.integrate() is the sum of the
\* input values of steps 0..n, for scalars and for Z-sets (weights added per
\* key): every step yields an output, and that output is the sum.
C21_IntegrateIsRunningSum ==
    int_fed # <<>> => int_out.ok /\ IntegralIsSum

\* what holds of the code: a step that yields an output yields the sum
IntegrateRightWhenReturns ==
    int_fed # <<>> /\ int_out.ok => IntegralIsSum

\* and a step yields no output only for Z-sets, in a build with overflow
\* checks, when the integral holds a long run of keys below the input's
IntegratePanicsOnlyOnLongRun ==
    ~int_out.ok =>
        /\ int_kind = "zset"
        /\ overflow_checks
        /\ Len(int_z1) >= LongSliceLen

\* a stream of 1s gives 1, 2, 3, ...
OnesGiveCount ==
    int_kind = "scalar" /\ (\A i \in 1..Len(int_fed) : int_fed[i] = 1)
        => int_out.val = Len(int_fed)

(***************************************************************************)
(* SpecNested: Stream::integrate_nested over a stream of streams of        *)
(* scalars.  The circuit is that of integrate with the nested delay in     *)
(* place of z^-1.  The nested delay is outside the source files: by the    *)
(* doc comment of integrate_nested (integral[i,j] = sum(input[k,j]),       *)
(* k <= i) it keeps one value per child index j, gives at [i,j] the value  *)
(* it was fed at [i-1,j] (zero when there is none) and starts every parent *)
(* step at child index 0.                                                  *)
(***************************************************************************)
\* the nested delay at child index t: the value kept for t, or zero
NestedOutput(values, t) == IF t < Len(values) THEN values[t + 1] ELSE 0

\* the nested delay fed v at child index t
NestedStore(values, t, v) ==
    IF t < Len(values) THEN [values EXCEPT ![t + 1] = v] ELSE Append(values, v)

\* the scalars drawn as values of the nested stream
NestedInputs == {1, 2}

\* history: x appended to the last row of a sequence of rows
PutLast(rows, x) == [rows EXCEPT ![Len(rows)] = Append(@, x)]

InitNested ==
    /\ overflow_checks \in BOOLEAN
    /\ nest_values = <<>>
    /\ nest_timestamp = 0
    /\ nest_rows = <<<<>>>>
    /\ nest_outs = <<<<>>>>
    /\ SpineIdle /\ LeafIdle /\ AdvIdle /\ BldIdle /\ CurIdle /\ WorkIdle
    /\ IntIdle /\ IterIdle /\ FpIdle /\ SortIdle /\ IdxIdle

\* One child step on `input`, the Plus having given `out`.
NestedIntegrated(input, out) ==
    /\ nest_values' = NestedStore(nest_values, nest_timestamp,
                                  FeedbackConnect(out.val, input))
    /\ nest_timestamp' = nest_timestamp + 1
    /\ nest_rows' = PutLast(nest_rows, input)
    /\ nest_outs' = PutLast(nest_outs, out.val)
    /\ UNCHANGED <<overflow_checks, spineAll, leafVars, advVars, bldVars, curVars,
                   workVars, intVars, iterVars, fpVars, sortVars, idxVars>>

\* a child step: integral = Plus(feedback.stream(), self)
NestedChildStep ==
    \E input \in NestedInputs, how \in PlusPaths :
        /\ nest_timestamp < MaxChildSteps
        /\ NestedIntegrated(input,
               PlusEval("scalar", how, NestedOutput(nest_values, nest_timestamp),
                        input, overflow_checks))

\* the child clock ends and the next parent step starts it again
NestedParentStep ==
    /\ nest_timestamp > 0
    /\ Len(nest_rows) < MaxParentSteps
    /\ nest_timestamp' = 0
    /\ nest_rows' = Append(nest_rows, <<>>)
    /\ nest_outs' = Append(nest_outs, <<>>)
    /\ UNCHANGED <<overflow_checks, nest_values, spineAll, leafVars, advVars, bldVars,
                   curVars, workVars, intVars, iterVars, fpVars, sortVars, idxVars>>

NextNested ==
    \/ NestedChildStep
    \/ NestedParentStep

SpecNested == InitNested /\ [][NextNested]_vars

(***************************************************************************)
(* C22: integrate_nested sums the nested streams point-wise.               *)
(***************************************************************************)
\* input[k, j] (parent step k, child step j, both from 1), zero when parent
\* step k ran fewer child steps
InputAt(k, j) == IF j <= Len(nest_rows[k]) THEN nest_rows[k][j] ELSE 0

\* the sum of input[k, j] over the parent steps k <= i
RECURSIVE ColumnSum(_, _)
ColumnSum(i, j) == IF i = 0 THEN 0 ELSE ColumnSum(i - 1, j) + InputAt(i, j)

\* C22: for every parent step i and child step j the output of
\* integrate_nested is the sum over the parent steps k <= i of input[k, j],
\* an input counting as zero where parent step k ran fewer child steps; the
\* value kept for child index j survives across parent steps.
C22_NestedIntegralSumsColumns ==
    \A i \in 1..Len(nest_outs) : \A j \in 1..Len(nest_outs[i]) :
        nest_outs[i][j] = ColumnSum(i, j)

\* A third parent step whose second child step adds to the value of the
\* first parent step, the second parent step having run one child step only
\* (a column with a gap), after a parent step longer than the one before.
C22_Witness ==
    /\ Len(nest_rows) = 3
    /\ Len(nest_rows[1]) >= 2
    /\ Len(nest_rows[2]) = 1
    /\ Len(nest_rows[3]) >= 2
    /\ nest_outs[3][2] = nest_rows[1][2] + nest_rows[3][2]

(***************************************************************************)
(* SpecIterate: the circuit of test::scalar_integrate_nested               *)
(* (operator/integrate.rs).  A parent stream feeds a child circuit built   *)
(* by iterate_with_condition:                                              *)
(*     plus     = source.delta0(child) + feedback.apply(count down)        *)
(*     feedback <- plus                                                    *)
(*     integral = plus.integrate_nested()                                  *)
(*     condition: integral == 0;  export: integral.integrate()             *)
(* delta0, the child clock, condition and export are outside the source    *)
(* files: delta0 gives the parent value at the first child step and zero   *)
(* after it, a delay of the child scope starts every parent step at zero,  *)
(* the child steps until the condition holds, and the export is the value  *)
(* of the exported stream at the last child step.                          *)
(***************************************************************************)
\* the closure applied to the feedback without its test of n
CountDownUnchecked(n) == n - 1

\* feedback.stream().apply(|&n| if n > 0 { n - 1 } else { n })
CountDown(n) == IF n > 0 THEN n - 1 ELSE n

\* source.delta0(child) at child index t of a parent step with value v
Delta0(v, t) == IF t = 0 THEN v ELSE 0

\* the parent input of the current parent step
CurrentInput == it_inputs[Len(it_inputs)]

InitIterate ==
    /\ overflow_checks \in BOOLEAN
    /\ it_inputs = <<>>
    /\ it_running = FALSE
    /\ it_feedback = 0
    /\ it_sum = 0
    /\ it_exports = <<>>
    /\ nest_values = <<>>
    /\ nest_timestamp = 0
    /\ nest_rows = <<>>
    /\ nest_outs = <<>>
    /\ SpineIdle /\ LeafIdle /\ AdvIdle /\ BldIdle /\ CurIdle /\ WorkIdle
    /\ IntIdle /\ FpIdle /\ SortIdle /\ IdxIdle

\* root.step(): the source gives the next parent value and the child clock
\* starts; the delays of the child scope start at zero, the nested delay at
\* child index 0.
IterateParentStep ==
    \E input \in 0..MaxInput :
        /\ ~it_running
        /\ Len(it_inputs) < MaxIterations
        /\ it_inputs' = Append(it_inputs, input)
        /\ it_running' = TRUE
        /\ it_feedback' = 0
        /\ it_sum' = 0
        /\ nest_timestamp' = 0
        /\ nest_rows' = Append(nest_rows, <<>>)
        /\ nest_outs' = Append(nest_outs, <<>>)
        /\ UNCHANGED <<overflow_checks, it_exports, nest_values, spineAll, leafVars,
                       advVars, bldVars, curVars, workVars, intVars, fpVars, sortVars, idxVars>>

\* One child step, `plus` being the value of the counter and `integral` the
\* value of its nested integral: the delays are fed, the child-scope
\* integrate adds the integral, and the child clock ends when the condition
\* holds, exporting the sum.
IterateStepped(plus, integral) ==
    /\ it_feedback' = plus
    /\ nest_values' = NestedStore(nest_values, nest_timestamp,
                                  FeedbackConnect(integral, plus))
    /\ nest_timestamp' = nest_timestamp + 1
    /\ nest_rows' = PutLast(nest_rows, plus)
    /\ nest_outs' = PutLast(nest_outs, integral)
    /\ it_sum' = FeedbackConnect(it_sum + integral, integral)
    /\ it_running' = (integral # 0)
    /\ it_exports' = IF integral = 0 THEN Append(it_exports, it_sum + integral)
                     ELSE it_exports
    /\ UNCHANGED <<overflow_checks, it_inputs, spineAll, leafVars, advVars, bldVars,
                   curVars, workVars, intVars, fpVars, sortVars, idxVars>>

IterateCounted(plus) ==
    IterateStepped(plus, NestedOutput(nest_values, nest_timestamp) + plus)

IterateChildStep ==
    /\ it_running
    /\ IterateCounted(Delta0(CurrentInput, nest_timestamp) + CountDown(it_feedback))

NextIterate ==
    \/ IterateParentStep
    \/ IterateChildStep

SpecIterate == InitIterate /\ [][NextIterate]_vars

(***************************************************************************)
(* C23: the nested circuit iterates to the first zero of the nested        *)
(* integral and exports the sum of the parent step's integrals.            *)
(***************************************************************************)
\* the parent steps whose child clock has ended
Finished == 1..Len(it_exports)

\* C23: each parent step iterates the child until the first iteration at
\* which the nested integral is 0 and then exports the sum of that parent
\* step's nested-integral values (the child-scope integrate restarting from
\* zero); the parent inputs 3, 4, 2, 5 export 6, 16, 19, 34.
C23_IteratesToZeroAndExportsSum ==
    /\ \A i \in 1..Len(nest_outs) : \A j \in 1..Len(nest_outs[i]) :
           (nest_outs[i][j] = 0) <=> (i \in Finished /\ j = Len(nest_outs[i]))
    /\ \A i \in Finished :
           it_exports[i] = ScalarSum(nest_outs[i], Len(nest_outs[i]))
    /\ it_running => Len(it_exports) = Len(it_inputs) - 1
    /\ ~it_running => Len(it_exports) = Len(it_inputs)
    /\ it_inputs = <<3, 4, 2, 5>> /\ ~it_running => it_exports = <<6, 16, 19, 34>>

C23_Witness ==
    /\ it_inputs = <<3, 4, 2, 5>>
    /\ ~it_running
    /\ it_exports = <<6, 16, 19, 34>>

\* the values the test expects of the counter and of the nested integral
TestExpectations ==
    it_inputs = <<3, 4, 2, 5>> /\ ~it_running =>
        /\ nest_rows = <<<<3, 2, 1, 0>>, <<4, 3, 2, 1, 0>>, <<2, 1, 0, 0, 0>>,
                         <<5, 4, 3, 2, 1, 0>>>>
        /\ nest_outs = <<<<3, 2, 1, 0>>, <<7, 5, 3, 1, 0>>, <<9, 6, 3, 1, 0>>,
                         <<14, 10, 6, 3, 1, 0>>>>

(***************************************************************************)
(* SpecClosure: the fixed-point circuit of benches/galen.rs restricted to  *)
(* its rule IR1, p(x,z) :- p(x,y), p(y,z) (the other relations empty):     *)
(*     ir1  = p_by_2.join_trace(&p_by_1, |y, x, z| (x, z))                 *)
(*     p    = p.delta0(child).sum([ir1]).distinct_trace()                  *)
(*     pvar <- p;   export: p.integrate_trace()                            *)
(* A Z-set of tuples is a function from its tuples to their non-zero       *)
(* weights.  fixedpoint, join_trace, distinct_trace, sum and               *)
(* integrate_trace are outside the source files: join_trace gives the      *)
(* change of the join of the integrals of its inputs, distinct_trace the   *)
(* change of the set of tuples with a positive weight in the integral of   *)
(* its input, and the child steps until the feedback is fed the zero       *)
(* Z-set.                                                                  *)
(***************************************************************************)
\* the sum of f over the finite set S
RECURSIVE SetSum(_, _)
SetSum(S, f) ==
    IF S = {} THEN 0
    ELSE LET x == CHOOSE y \in S : TRUE
         IN  f[x] + SetSum(S \ {x}, f)

\* the Z-set of a weight function over a set of tuples: zero weights dropped
ZSetOf(S, f) == [t \in {u \in S : f[u] # 0} |-> f[t]]

ZWeight(z, t) == IF t \in DOMAIN z THEN z[t] ELSE 0

\* Z-set addition and subtraction
ZAdd(a, b) ==
    ZSetOf(DOMAIN a \cup DOMAIN b,
           [t \in DOMAIN a \cup DOMAIN b |-> ZWeight(a, t) + ZWeight(b, t)])
ZSub(a, b) ==
    ZSetOf(DOMAIN a \cup DOMAIN b,
           [t \in DOMAIN a \cup DOMAIN b |-> ZWeight(a, t) - ZWeight(b, t)])

\* the tuples with a positive weight, each with weight 1
Distinct(z) == [t \in {u \in DOMAIN z : z[u] > 0} |-> 1]

\* pvar.stream().index(): (x, y) keyed by x
PBy1(t) == [key |-> t[1], val |-> t[2]]

\* pvar.stream().index_with(|&(x, y)| (y, x)): (x, y) keyed by y
PBy2(t) == [key |-> t[2], val |-> t[1]]

\* IR1 giving (z, x)
IR1TupleSwapped(y, x, z) == <<z, x>>

\* the closure of IR1: |&_y, &x, &z| (x, z)
IR1Tuple(y, x, z) == <<x, z>>

\* The join of p_by_2 over a with p_by_1 over b: for every pair of tuples
\* with equal keys the tuple IR1 makes of them, with the product of the
\* weights; weights of equal tuples add up.
IR1Join(a, b) ==
    LET matches == {m \in (DOMAIN a) \X (DOMAIN b) : PBy2(m[1]).key = PBy1(m[2]).key}
        made(m) == IR1Tuple(PBy2(m[1]).key, PBy2(m[1]).val, PBy1(m[2]).val)
        outs == {made(m) : m \in matches}
        w == [m \in matches |-> a[m[1]] * b[m[2]]]
    IN  ZSetOf(outs, [t \in outs |-> SetSum({m \in matches : made(m) = t}, w)])

\* join_trace on the change d of both inputs, their integral so far being
\* old: the change of the join
JoinTrace(d, old) ==
    ZAdd(ZAdd(IR1Join(d, old), IR1Join(old, d)), IR1Join(d, d))

\* distinct_trace on the change d of its input, the integral so far being
\* old: the change of the distinct integral
DistinctTrace(d, old) == ZSub(Distinct(ZAdd(old, d)), Distinct(old))

\* p.delta0(child) at child iteration t
Delta0ZSet(p, t) == IF t = 0 THEN p ELSE EmptyZSet

\* The relations drawn: every set of at most MaxEdges pairs over
\* 1..MaxNode, each pair with weight +1.
Nodes == 1..MaxNode
Relations ==
    {[t \in E |-> 1] : E \in {F \in SUBSET (Nodes \X Nodes) : Cardinality(F) <= MaxEdges}}

InitClosure ==
    /\ overflow_checks \in BOOLEAN
    /\ fp_input \in Relations
    /\ fp_phase = "running"
    /\ fp_delta = EmptyZSet
    /\ fp_trace = EmptyZSet
    /\ fp_distinct = EmptyZSet
    /\ fp_export = EmptyZSet
    /\ fp_iter = 0
    /\ SpineIdle /\ LeafIdle /\ AdvIdle /\ BldIdle /\ CurIdle /\ WorkIdle
    /\ IntIdle /\ NestIdle /\ IterIdle /\ SortIdle /\ IdxIdle

\* One child iteration, `summed` being the input of distinct_trace and `p`
\* its output: p is fed to the feedback and to integrate_trace, and the
\* child clock ends when the feedback is fed the zero Z-set.
ClosureStepped(summed, p) ==
    /\ fp_trace' = ZAdd(fp_trace, fp_delta)
    /\ fp_distinct' = ZAdd(fp_distinct, summed)
    /\ fp_delta' = p
    /\ fp_export' = ZAdd(fp_export, p)
    /\ fp_iter' = fp_iter + 1
    /\ fp_phase' = IF p = EmptyZSet THEN "done" ELSE "running"
    /\ UNCHANGED <<overflow_checks, fp_input, spineAll, leafVars, advVars, bldVars,
                   curVars, workVars, intVars, nestVars, iterVars, sortVars, idxVars>>

ClosureSummed(summed) == ClosureStepped(summed, DistinctTrace(summed, fp_distinct))

ClosureChildStep ==
    /\ fp_phase = "running"
    /\ ClosureSummed(ZAdd(Delta0ZSet(fp_input, fp_iter), JoinTrace(fp_delta, fp_trace)))

NextClosure == ClosureChildStep

SpecClosure == InitClosure /\ [][NextClosure]_vars

(***************************************************************************)
(* C24: the fixed point of p(x,z) :- p(x,y), p(y,z) is the transitive      *)
(* closure of p.                                                           *)
(***************************************************************************)
\* the pairs joined by a path of at most n tuples of the relation E
RECURSIVE PathsUpTo(_, _)
PathsUpTo(E, n) ==
    IF n <= 1 THEN E
    ELSE LET shorter == PathsUpTo(E, n - 1)
         IN  shorter \cup {<<c[1][1], c[2][2]>> :
                              c \in {d \in shorter \X E : d[1][2] = d[2][1]}}

TransitiveClosure(E) == PathsUpTo(E, MaxNode)

ClosureOfInput == [t \in TransitiveClosure(DOMAIN fp_input) |-> 1]

\* C24: for every input relation with weights +1 the child keeps iterating
\* exactly while the delta fed to the feedback is not the zero Z-set; every
\* iteration but the last adds a tuple to the export, which stays within
\* the transitive closure, so the iterations are finitely many; and once
\* the child has ended the export is the transitive closure of the input,
\* each tuple with weight +1.
C24_FixedpointIsTransitiveClosure ==
    /\ fp_phase = "done" <=> (fp_iter > 0 /\ fp_delta = EmptyZSet)
    /\ fp_iter <= Cardinality(DOMAIN fp_export) + 1
    /\ DOMAIN fp_export \subseteq DOMAIN ClosureOfInput
    /\ fp_phase = "done" => fp_export = ClosureOfInput

\* the chain 1 -> 2 -> 3 -> 4 has reached its fixed point with six tuples
C24_Witness ==
    /\ fp_phase = "done"
    /\ DOMAIN fp_input = {<<1, 2>>, <<2, 3>>, <<3, 4>>}
    /\ fp_export = [t \in {<<1, 2>>, <<1, 3>>, <<1, 4>>, <<2, 3>>, <<2, 4>>, <<3, 4>>} |-> 1]

\* every Z-set the feedback is fed is a set of new tuples with weight +1,
\* and the distinct integral never holds a tuple twice
ClosureDeltasAreSets ==
    /\ \A t \in DOMAIN fp_delta : fp_delta[t] = 1 /\ t \notin DOMAIN fp_trace
    /\ \A t \in DOMAIN fp_export : fp_export[t] = 1

(***************************************************************************)
(* SpecSorted: tuples (key, val, diff) pushed in any order into an         *)
(* OrdIndexedZSetBuilder, then done().  The builder is an                  *)
(* OrderedBuilder<K, OrderedLeafBuilder<V, R>>: the key layer              *)
(* (trace/layers/ordered.rs) is outside the source files and is taken to   *)
(* refuse a key below the last one; the value layer is the                 *)
(* OrderedLeafBuilder of trace/layers/ordered_leaf.rs.                     *)
(***************************************************************************)
SortedVals == 1..MaxSortVal

\* OrderedLeafBuilder::push_tuple: self.vals.push(tuple)
OrderedLeafPushTuple(vals, tuple) == Append(vals, tuple)

\* OrderedLeafBuilder::boundary: self.vals.len()
OrderedLeafBoundary(vals) == Len(vals)

\* OrderedLeafBuilder::done: OrderedLeaf { vals: self.vals }
OrderedLeafDone(vals) == vals

\* OrderedBuilder::push_tuple((key, item)): a key below the last key is
\* refused; a new key closes the group of the last key at the boundary of
\* the value layer and opens its own; the item goes to the value layer.
OrderedBuilderPushTuple(b, key, item) ==
    IF b.keys # <<>> /\ key < b.keys[Len(b.keys)]
    THEN [b EXCEPT !.panicked = TRUE]
    ELSE LET opens == b.keys = <<>> \/ b.keys[Len(b.keys)] # key
         IN  [keys |-> IF opens THEN Append(b.keys, key) ELSE b.keys,
              offs |-> IF opens THEN Append(b.offs, OrderedLeafBoundary(b.vals))
                       ELSE b.offs,
              vals |-> OrderedLeafPushTuple(b.vals, item),
              panicked |-> FALSE]

\* OrderedBuilder::done: the last group is closed at the boundary of the
\* value layer, and the value layer is done.
OrderedBuilderDone(b) ==
    [keys |-> b.keys,
     offs |-> Append(b.offs, OrderedLeafBoundary(b.vals)),
     vals |-> OrderedLeafDone(b.vals)]

\* OrdIndexedZSetBuilder::push: self.builder.push_tuple((key, (val, diff)))
IndexedPush(b, tuple) == OrderedBuilderPushTuple(b, tuple[1], <<tuple[2], tuple[3]>>)

\* OrdIndexedZSetBuilder::done: the layer of the batch
IndexedDone(b) == OrderedBuilderDone(b)

SortedBuilder ==
    [keys |-> ord_keys, offs |-> ord_offs, vals |-> ord_vals, panicked |-> FALSE]

InitSorted ==
    /\ overflow_checks \in BOOLEAN
    /\ ord_keys = <<>> /\ ord_offs = <<>> /\ ord_vals = <<>>     \* Builder::new
    /\ ord_phase = "building"
    /\ ord_layer = NoLayer
    /\ ord_pushed = <<>>
    /\ SpineIdle /\ LeafIdle /\ AdvIdle /\ BldIdle /\ CurIdle /\ WorkIdle
    /\ IntIdle /\ NestIdle /\ IterIdle /\ FpIdle /\ IdxIdle

SortedPushed(b, tuple) ==
    /\ ord_keys' = b.keys /\ ord_offs' = b.offs /\ ord_vals' = b.vals
    /\ ord_phase' = IF b.panicked THEN "panicked" ELSE "building"
    /\ ord_pushed' = Append(ord_pushed, tuple)
    /\ UNCHANGED <<overflow_checks, ord_layer, spineAll, leafVars, advVars, bldVars,
                   curVars, workVars, intVars, nestVars, iterVars, fpVars, idxVars>>

SortedPush ==
    \E k \in DrawnKeys, v \in SortedVals, w \in DrawnWeights :
        /\ ord_phase = "building"
        /\ Len(ord_pushed) < MaxPushed
        /\ SortedPushed(IndexedPush(SortedBuilder, <<k, v, w>>), <<k, v, w>>)

SortedDone ==
    /\ ord_phase = "building"
    /\ ord_layer' = IndexedDone(SortedBuilder)
    /\ ord_phase' = "sealed"
    /\ UNCHANGED <<overflow_checks, ord_keys, ord_offs, ord_vals, ord_pushed, spineAll,
                   leafVars, advVars, bldVars, curVars, workVars, intVars, nestVars,
                   iterVars, fpVars, idxVars>>

NextSorted ==
    \/ SortedPush
    \/ SortedDone

SpecSorted == InitSorted /\ [][NextSorted]_vars

\* tuple u may not be pushed right after tuple t: its key is lower, or its
\* key is the same and its value is lower
PushedOutOfOrder(t, u) == u[1] < t[1] \/ (u[1] = t[1] /\ u[2] < t[2])

OutOfOrderPushed ==
    \E i \in 1..(Len(ord_pushed) - 1) : PushedOutOfOrder(ord_pushed[i], ord_pushed[i + 1])

\* C25: once a tuple was pushed out of order (its key below the last key,
\* or its value below the last value of the same key) the builder has
\* ended in a fatal error: it is not building on, and it has sealed nothing.
C25_OutOfOrderPushIsFatal == OutOfOrderPushed => ord_phase = "panicked"

\* a key below the last key is refused by the key layer
LowerKeyIsFatal ==
    (\E i \in 1..(Len(ord_pushed) - 1) : ord_pushed[i + 1][1] < ord_pushed[i][1])
        => ord_phase = "panicked"

\* done() seals the values exactly as they were pushed, in push order
SealsWhatWasPushed ==
    ord_phase = "sealed" =>
        ord_layer.vals = [i \in 1..Len(ord_pushed) |-> <<ord_pushed[i][2], ord_pushed[i][3]>>]

\* a sealed layer whose values under one key are not ascending
UnsortedSealed ==
    /\ ord_phase = "sealed"
    /\ \E i \in 1..(Len(ord_layer.vals) - 1) :
          /\ ord_pushed[i][1] = ord_pushed[i + 1][1]
          /\ ord_layer.vals[i + 1][1] < ord_layer.vals[i][1]

(***************************************************************************)
(* SpecSteps: the Spine of Spec under insert and exert, with the calls     *)
(* each operation makes inside the Spine kept in steps.log: tidied (exert, *)
(* after tidy_layers), introduce_batch, apply_fuel, work, apply_fuel       *)
(* returns, promote (roll_up), roll_up returns and insert_at.              *)
(***************************************************************************)
StepsOn ==
    [on |-> {"tidied", "introduce_batch", "apply_fuel", "work", "apply_fuel returns",
             "promote", "roll_up returns", "insert_at"},
     log |-> <<>>]

\* Spine::new: effort 1, no activator
InitSteps ==
    /\ overflow_checks \in BOOLEAN
    /\ Constructed(1, FALSE)
    /\ last_op = "off"
    /\ steps = StepsOn
    /\ Fresh

InsertSteps == InsertFrom(Batches, MaxStepInserts)

NextSteps ==
    \/ InsertSteps
    \/ Exert

SpecSteps == InitSteps /\ [][NextSteps]_vars

\* the positions of the log that hold a call of `op`
Calls(op) == {i \in 1..Len(steps.log) : steps.log[i].op = op}

\* the Z-set sum of all batches in the slots ms
SpineSum(ms) == ZSetSum(cursor(ms), Len(cursor(ms)))

AnyDouble(ms) == \E i \in 1..Len(ms) : is_double(ms[i])

\* L is ceil(log2(n)) for n >= 1
IsCeilLog2(L, n) == Pow2(L) >= n /\ (L = 0 \/ Pow2(L - 1) < n)

\* the calls logged after position i
After(i, op) == {j \in Calls(op) : j > i}

\* exert with the fuel and the slots of the `tidied` call at position t:
\* what the rest of the log and the slots left must be
ExertFrom(t, fuel, tidied) ==
    IF reduced([merging |-> tidied])
    THEN /\ Len(steps.log) = t
         /\ merging = tidied
    ELSE IF AnyDouble(tidied)
    THEN /\ Calls("introduce_batch") = {}
         /\ After(t, "apply_fuel") = {t + 1}
         /\ steps.log[t + 1].a = fuel
    ELSE /\ After(t, "introduce_batch") = {t + 1}
         /\ Calls("introduce_batch") = {t + 1}
         /\ steps.log[t + 1].a = None
         /\ IsCeilLog2(steps.log[t + 1].index, fuel.n)

\* C26: exert(fuel) with fuel >= 1 tidies the layers first; then a reduced
\* spine is left as tidy_layers left it; a spine that is not reduced and
\* holds a Double gets apply_fuel(fuel) and no placeholder; a spine that is
\* not reduced and holds no Double gets exactly one placeholder (None),
\* introduced at level ceil(log2(fuel)).
C26_ExertTidiesThenFuelsOrNudges ==
    panic = "" =>
        \A t \in Calls("tidied") :
            /\ Calls("tidied") = {t}
            /\ \A i \in 1..(t - 1) : steps.log[i].op = "insert_at"
            /\ ExertFrom(t, steps.log[t].a, steps.log[t].b)

\* Witnesses of C26: an exert with fuel 3 that found no Double and
\* introduced its placeholder at level 2
C26_Witness ==
    /\ panic = ""
    /\ \E t \in Calls("tidied") :
          /\ steps.log[t].a = Fuel(3)
          /\ ~reduced([merging |-> steps.log[t].b])
          /\ ~AnyDouble(steps.log[t].b)
          /\ steps.log[t + 1].op = "introduce_batch"
          /\ steps.log[t + 1].index = 2

\* an exert that found a Double and applied the fuel
ExertFuelsDouble ==
    /\ panic = ""
    /\ \E t \in Calls("tidied") :
          /\ AnyDouble(steps.log[t].b)
          /\ \E w \in Calls("work") : steps.log[w].a # steps.log[w].b

\* an exert that found a reduced spine holding a batch
ExertOnReduced ==
    /\ panic = ""
    /\ \E t \in Calls("tidied") :
          /\ reduced([merging |-> steps.log[t].b])
          /\ SpineSum(steps.log[t].b) # EmptyZSet

\* C27: when roll_up(index) returns, every level below index is Vacant,
\* level index is Vacant or Single, and the Z-set sum of all batches in the
\* spine is what it was when roll_up was called.
C27_RollUpClearsBelowKeepsSum ==
    \A r \in Calls("roll_up returns") :
        LET index == steps.log[r].index
            before == steps.log[r].a
            after == steps.log[r].b
        IN  /\ Len(after) > index
            /\ \A i \in 1..index : is_vacant(after[i])
            /\ is_vacant(after[index + 1]) \/ is_single(after[index + 1])
            /\ SpineSum(after) = SpineSum(before)

\* Witness of C27: a roll_up that found batches below its index, merged
\* them with cancelling weights, and completed a merge at its index
C27_Witness ==
    \E r \in Calls("roll_up returns"), q \in Calls("promote") :
        /\ q < r
        /\ steps.log[r].index >= 1
        /\ \E i \in 1..steps.log[r].index : ~is_vacant(steps.log[r].a[i])
        /\ SpineSum(steps.log[r].a) # EmptyZSet
        /\ Len(cursor(steps.log[r].b)) < Len(cursor(steps.log[r].a))
        /\ \E b \in 1..Len(cursor(steps.log[r].a)) :
              KeysOf(cursor(steps.log[r].a)[b]) \ DOMAIN SpineSum(steps.log[r].a) # {}

\* C28 as stated: whenever roll_up completes a merge at level index and
\* promotes the result to level index + 1, the slot at level index + 1 is
\* Vacant at that moment.
C28_PromotionFindsVacant ==
    \A q \in Calls("promote") : is_vacant(steps.log[q].a)

\* C28 amended: the slot at level index + 1 is Vacant or Single at that
\* moment, never a Double, so the insertion of the promoted batch does not
\* panic.
C28_PromotionFindsNoDouble ==
    /\ panic # PanicIncomplete
    /\ \A q \in Calls("promote") : ~is_double(steps.log[q].a)

\* Witness of C28: a promotion by roll_up into a level that holds a batch
C28_Witness ==
    \E q \in Calls("promote") :
        /\ is_single(steps.log[q].a)
        /\ steps.log[q].a.batch.some

\* the call of apply_fuel that the call at position i of the log is part of
Enclosing(i) == CHOOSE j \in Calls("apply_fuel") :
                    j < i /\ \A k \in Calls("apply_fuel") : k < i => k <= j

\* C29: apply_fuel hands every level the fuel it was called with, whatever
\* work the levels before it did, and the caller's fuel is that same value
\* when apply_fuel returns; so the fuel exert was given is the fuel it has
\* when its apply_fuel returns.
C29_EveryLevelGetsCallerFuel ==
    /\ \A w \in Calls("work") : steps.log[w].a = steps.log[Enclosing(w)].a
    /\ \A r \in Calls("apply_fuel returns") :
          /\ steps.log[r].a = steps.log[Enclosing(r)].a
          /\ \A i \in 0..(steps.log[r].index - 1) :
                \E w \in Calls("work") :
                    Enclosing(w) = Enclosing(r) /\ steps.log[w].index = i
    /\ \A t \in Calls("tidied"), r \in Calls("apply_fuel returns") :
          t < r /\ Calls("introduce_batch") = {} => steps.log[r].a = steps.log[t].a

\* Witness of C29: one apply_fuel in which a level spent fuel on its merge
\* and a higher level was handed fuel after it
C29_Witness ==
    \E w1, w2 \in Calls("work") :
        /\ w1 < w2
        /\ Enclosing(w1) = Enclosing(w2)
        /\ steps.log[w1].b # steps.log[w1].a
        /\ \E r \in Calls("apply_fuel returns") : r > w2

\* an exert whose apply_fuel spent fuel on two levels
ExertFuelsTwoLevels ==
    \E t \in Calls("tidied"), w1, w2 \in Calls("work") :
        /\ t < w1 /\ w1 < w2
        /\ steps.log[w1].b # steps.log[w1].a
        /\ steps.log[w2].b # steps.log[w2].a

\* C30: insert_at on a Single slot, the resident or the new batch being a
\* placeholder (None), leaves a completed Double that carries the other
\* side's batch unchanged (None when both are placeholders): no merge is in
\* progress and no Merger exists.
C30_PlaceholderMergeCarriesOver ==
    \A i \in Calls("insert_at") :
        LET new == steps.log[i].a.batch
            was == steps.log[i].a.was
            now == steps.log[i].b
        IN  is_single(was) /\ (~new.some \/ ~was.batch.some) =>
                /\ now.tag = "Double" /\ now.variant = "Complete"
                /\ "merger" \notin DOMAIN now
                /\ now.batch = (IF new.some THEN new
                                ELSE IF was.batch.some THEN was.batch
                                ELSE None)

\* Witness of C30: a placeholder inserted onto a Single that holds a batch
C30_Witness ==
    \E i \in Calls("insert_at") :
        /\ is_single(steps.log[i].a.was)
        /\ ~steps.log[i].a.batch.some
        /\ steps.log[i].a.was.batch.some
        /\ steps.log[i].a.was.batch.vals # <<>>

\* a batch inserted onto a Single that holds a placeholder
BatchOntoPlaceholder ==
    \E i \in Calls("insert_at") :
        /\ is_single(steps.log[i].a.was)
        /\ steps.log[i].a.batch.some
        /\ ~steps.log[i].a.was.batch.some

\* a placeholder inserted onto a Single that holds a placeholder
PlaceholderOntoPlaceholder ==
    \E i \in Calls("insert_at") :
        /\ is_single(steps.log[i].a.was)
        /\ ~steps.log[i].a.batch.some
        /\ ~steps.log[i].a.was.batch.some


(***************************************************************************)
(* SpecTidy: the Spine of Spec under insert, exert and recede_to, with     *)
(* every return of tidy_layers kept in steps.log: the slots it was given   *)
(* (a) and the slots it left (b).                                          *)
(***************************************************************************)
StepsTidy == [on |-> {"tidy_layers"}, log |-> <<>>]
StepsIntroduce == [on |-> {"introduce_batch"}, log |-> <<>>]
StepsFuel == [on |-> {"apply_fuel", "worked", "apply_fuel returns"}, log |-> <<>>]

InitTidy ==
    /\ overflow_checks \in BOOLEAN
    /\ \E arg \in 1..MaxEffort : Constructed(arg, FALSE)
    /\ last_op = "off"
    /\ steps = StepsTidy
    /\ Fresh

NextTidy ==
    \/ Insert
    \/ Exert
    \/ RecedeTo

SpecTidy == InitTidy /\ [][NextTidy]_vars

\* a slot tidy_layers may absorb: Vacant or a placeholder Single(None)
Absorbable(m) == is_vacant(m) \/ (is_single(m) /\ ~m.batch.some)

\* how often the batch b is held in the slots ms
Holds(ms, b) == Cardinality({i \in 1..Len(cursor(ms)) : cursor(ms)[i] = b})

\* the nominal record count of the levels below level k (slots 1..k): 2^i
\* per Single and 2 * 2^i per Double at level i
NominalCount(ms, k) ==
    SetSum(1..k, [i \in 1..k |-> IF ms[i].tag = "Single" THEN Pow2(i - 1)
                                 ELSE IF ms[i].tag = "Double" THEN 2 * Pow2(i - 1)
                                 ELSE 0])

\* the least level whose nominal size 2^L holds n records
LeastLevel(n) == CHOOSE L \in 0..n : Pow2(L) >= n /\ (L = 0 \/ Pow2(L - 1) < n)

\* tidy_layers left the top batch where it was or drew it down over
\* absorbable slots: the slots below are kept, the slots taken out were
\* Vacant or placeholders, and where the batch stopped above its level the
\* slot beneath could not be absorbed
DrawnDown(B, A, L) ==
    /\ A[Len(A)] = B[Len(B)]
    /\ \A i \in 1..(Len(A) - 1) : A[i] = B[i]
    /\ \A i \in Len(A)..(Len(B) - 1) : Absorbable(B[i])
    /\ Len(A) - 1 > L => ~Absorbable(A[Len(A) - 1])

\* tidy_layers merged the top batch with the Single beneath it at level k =
\* Len(A) - 1: the slots below k are kept, the slots between were
\* absorbable, and the nominal count below k is at most 2^(k-1)
MergedBeneath(B, A, L) ==
    /\ Len(A) < Len(B)
    /\ is_single(B[Len(A)]) /\ B[Len(A)].batch.some
    /\ is_double(A[Len(A)])
    /\ SlotBatches(A[Len(A)]) = SlotBatches(B[Len(B)]) \o SlotBatches(B[Len(A)])
    /\ \A i \in 1..(Len(A) - 1) : A[i] = B[i]
    /\ \A i \in (Len(A) + 1)..(Len(B) - 1) : Absorbable(B[i])
    /\ 2 * NominalCount(B, Len(A) - 1) <= Pow2(Len(A) - 1)

TidiedRight(B, A) ==
    /\ Len(A) <= Len(B)
    /\ \A b \in Batches : Holds(A, b) = Holds(B, b)
    /\ SpineSum(A) = SpineSum(B)
    /\ ~is_single(B[Len(B)]) => A = B
    /\ Len(B) >= 2 /\ is_double(B[Len(B) - 1]) => A = B
    /\ \A i \in 1..Len(B) : is_double(B[i]) => i <= Len(A) /\ A[i] = B[i]
    /\ is_single(B[Len(B)]) =>
          LET L == LeastLevel(MergeStateLen(B[Len(B)]))
          IN  /\ Len(A) - 1 >= Min(L, Len(B) - 1)
              /\ DrawnDown(B, A, L) \/ MergedBeneath(B, A, L)

\* C31: tidy_layers changes the slots only when the top slot is Single; it
\* takes out Vacant and placeholder slots directly beneath the top batch
\* while the batch fits a lower level and never draws it below level
\* ceil(log2(len)); it adds no level and drops no batch; it merges the top
\* batch with the Single beneath at level k only when the nominal count
\* below k is at most 2^(k-1); a Double beneath stops it, unchanged.
C31_TidyDrawsDownWithinBounds ==
    \A t \in Calls("tidy_layers") : TidiedRight(steps.log[t].a, steps.log[t].b)

\* Witnesses of C31: tidy_layers began a merge of the top batch with the
\* Single beneath it
C31_Witness ==
    \E t \in Calls("tidy_layers") :
        /\ is_single(steps.log[t].a[Len(steps.log[t].a)])
        /\ Len(steps.log[t].b) < Len(steps.log[t].a)
        /\ is_double(steps.log[t].b[Len(steps.log[t].b)])

\* tidy_layers drew the top batch down over an absorbable slot
TidyAbsorbed ==
    \E t \in Calls("tidy_layers") :
        /\ Len(steps.log[t].b) < Len(steps.log[t].a)
        /\ is_single(steps.log[t].b[Len(steps.log[t].b)])

\* tidy_layers stopped at a Double beneath a top batch that fits lower
TidyStoppedAtDouble ==
    \E t \in Calls("tidy_layers") :
        /\ Len(steps.log[t].a) >= 2
        /\ is_single(steps.log[t].a[Len(steps.log[t].a)])
        /\ is_double(steps.log[t].a[Len(steps.log[t].a) - 1])
        /\ LeastLevel(MergeStateLen(steps.log[t].a[Len(steps.log[t].a)])) < Len(steps.log[t].a) - 1

(***************************************************************************)
(* The steps of advance (SpecAdvance).                                     *)
(***************************************************************************)
\* C32: once index 8 and index 9 satisfy the predicate, the growing loop
\* of advance doubles the step after every successful probe (1, 2, 4, 8,
\* ...) and the shrinking loop halves the last step down to 1.
C32_GallopDoublesThenHalves ==
    adv_out.called /\ prefix_len >= small_limit + 2 =>
        /\ adv_out.galloped
        /\ \A i \in 1..Len(adv_out.grown) : adv_out.grown[i] = Pow2(i - 1)
        /\ adv_out.ok =>
              \A i \in 1..Len(adv_out.shrunk) :
                  adv_out.shrunk[i] = adv_out.grown[Len(adv_out.grown)] \div Pow2(i)

\* what the code does: the step after a successful probe is step << step,
\* so the steps run 1, 2, 8, 2048; a build without overflow checks stays at
\* 2048 from then on
GallopShiftsByStep ==
    adv_out.called /\ prefix_len >= small_limit + 2 =>
        /\ adv_out.galloped
        /\ \A i \in 1..Len(adv_out.grown) :
              adv_out.grown[i] = IF i = 1 THEN 1 ELSE IF i = 2 THEN 2
                                 ELSE IF i = 3 THEN 8 ELSE 2048

\* the shrinking loop does halve the last step of the growing loop down to 1
ShrinkHalvesLastStep ==
    adv_out.called /\ adv_out.ok /\ prefix_len >= small_limit + 2 =>
        /\ Len(adv_out.shrunk) > 0 => adv_out.shrunk[Len(adv_out.shrunk)] = 1
        /\ \A i \in 1..Len(adv_out.shrunk) :
              adv_out.shrunk[i] = adv_out.grown[Len(adv_out.grown)] \div Pow2(i)

\* advance took three steps of the growing loop
GallopedThrice == adv_out.called /\ adv_out.ok /\ Len(adv_out.grown) >= 3

(***************************************************************************)
(* SpecIndexed: two indexed Z-sets merged by OrdIndexedZSetMerger: new,    *)
(* one call of work, done.  The layer of a batch is [keys, offs, vals]:    *)
(* the values of keys[i] are vals[offs[i] + 1 .. offs[i + 1]].  The key    *)
(* layer's merge builder (trace/layers/ordered.rs) is outside the source   *)
(* files and follows the merge algorithm as the specification states it;   *)
(* the value layer is OrderedLeafBuilder::push_merge.                      *)
(***************************************************************************)
EmptyLayer == [keys |-> <<>>, offs |-> <<0>>, vals |-> <<>>]

\* The layer of a weight function over (key, value) cells (0: absent).
RECURSIVE LayerFrom(_, _)
LayerFrom(f, k) ==
    IF k = 0 THEN EmptyLayer
    ELSE LET l == LayerFrom(f, k - 1)
             vs == LeafOf([v \in 1..MaxIdxVal |-> f[<<k, v>>]], 1, MaxIdxVal)
         IN  IF vs = <<>> THEN l
             ELSE [keys |-> Append(l.keys, k),
                   offs |-> Append(l.offs, Len(l.vals) + Len(vs)),
                   vals |-> l.vals \o vs]

IndexedLayers ==
    {LayerFrom(f, MaxIdxKey) :
        f \in [(1..MaxIdxKey) \X (1..MaxIdxVal) -> DrawnWeights \cup {0}]}

\* one key over a leaf
OneKeyLayer(leaf) == [keys |-> <<1>>, offs |-> <<0, Len(leaf)>>, vals |-> leaf]

\* MergeBuilder::with_capacity for the key layer
LayerBuilderNew == [ok |-> TRUE, keys |-> <<>>, offs |-> <<0>>, vals |-> <<>>]

\* copy_range at the key layer: the keys lower..upper of t with their values
LayerCopyRange(b, t, lower, upper) ==
    [ok |-> TRUE,
     keys |-> b.keys \o SubSeq(t.keys, lower + 1, upper),
     offs |-> b.offs \o [i \in 1..(upper - lower) |->
                            Len(b.vals) + t.offs[lower + i + 1] - t.offs[lower + 1]],
     vals |-> CopyRange(b.vals, t.vals, t.offs[lower + 1], t.offs[upper + 1])]

\* the run of keys of t from lower that are below `key`, capped: [ok, step]
LayerRun(t, lower, upper, key, checks) ==
    LET a == Advance([i \in 1..(upper - lower - 1) |-> t.keys[lower + 1 + i] < key], checks)
    IN  [ok |-> a.ok, step |-> Min(1 + a.n, RunCopyCap)]

LayerCopyRun(b, t, lower, run) ==
    IF run.ok THEN LayerCopyRange(b, t, lower, lower + run.step)
    ELSE [b EXCEPT !.ok = FALSE]

\* equal keys with the key copied although the values cancelled
LayerMergedEqualKeepsKey(b, key, r) ==
    IF ~r.ok THEN [b EXCEPT !.ok = FALSE]
    ELSE [ok |-> TRUE, keys |-> Append(b.keys, key),
          offs |-> Append(b.offs, Len(r.vals)), vals |-> r.vals]

\* equal keys: the value layer merged the two value ranges into r; the key
\* is copied and the offset emitted if the value layer grew
LayerMergedEqual(b, key, r) ==
    IF ~r.ok THEN [b EXCEPT !.ok = FALSE]
    ELSE IF Len(r.vals) > Len(b.vals)
    THEN [ok |-> TRUE, keys |-> Append(b.keys, key),
          offs |-> Append(b.offs, Len(r.vals)), vals |-> r.vals]
    ELSE b

\* the tail copies of push_merge at the key layer
LayerTail2(b, t2, lower2, upper2) ==
    IF lower2 < upper2 THEN LayerCopyRange(b, t2, lower2, upper2) ELSE b

LayerTail(b, t1, lower1, upper1, t2, lower2, upper2) ==
    LayerTail2(IF lower1 < upper1 THEN LayerCopyRange(b, t1, lower1, upper1) ELSE b,
               t2, lower2, upper2)

\* push_merge at the key layer
RECURSIVE LayerPushMerge(_, _, _, _, _, _, _, _)
LayerPushMerge(b, t1, lower1, upper1, t2, lower2, upper2, checks) ==
    IF ~b.ok THEN b
    ELSE IF lower1 < upper1 /\ lower2 < upper2
    THEN IF t1.keys[lower1 + 1] < t2.keys[lower2 + 1]
         THEN LET run == LayerRun(t1, lower1, upper1, t2.keys[lower2 + 1], checks)
              IN  LayerPushMerge(LayerCopyRun(b, t1, lower1, run),
                                 t1, lower1 + run.step, upper1, t2, lower2, upper2, checks)
         ELSE IF t1.keys[lower1 + 1] = t2.keys[lower2 + 1]
         THEN LayerPushMerge(
                  LayerMergedEqual(b, t1.keys[lower1 + 1],
                      PushMerge(b.vals, t1.vals, t1.offs[lower1 + 1], t1.offs[lower1 + 2],
                                t2.vals, t2.offs[lower2 + 1], t2.offs[lower2 + 2], checks)),
                  t1, lower1 + 1, upper1, t2, lower2 + 1, upper2, checks)
         ELSE LET run == LayerRun(t2, lower2, upper2, t1.keys[lower1 + 1], checks)
              IN  LayerPushMerge(LayerCopyRun(b, t2, lower2, run),
                                 t1, lower1, upper1, t2, lower2 + run.step, upper2, checks)
    ELSE LayerTail(b, t1, lower1, upper1, t2, lower2, upper2)

\* OrdIndexedZSetMerger::new
IndexedMergerNew == LayerBuilderNew

\* OrdIndexedZSetMerger::work: self.result.push_merge over the full cursors
\* of the two layers
IndexedMergerWork(res, source1, source2, checks) ==
    LayerPushMerge(res, source1, 0, Len(source1.keys),
                   source2, 0, Len(source2.keys), checks)

\* OrdIndexedZSetMerger::done: layer: self.result.done()
IndexedMergerDone(res) ==
    [keys |-> res.keys, offs |-> res.offs, vals |-> res.vals]

InitIndexed ==
    /\ overflow_checks \in BOOLEAN
    /\ \/ idx1 \in IndexedLayers /\ idx2 \in IndexedLayers
       \/ \E p \in LongPairs : idx1 = OneKeyLayer(p[1]) /\ idx2 = OneKeyLayer(p[2])
    /\ idx_out = NotMerged
    /\ SpineIdle /\ LeafIdle /\ AdvIdle /\ BldIdle /\ CurIdle /\ WorkIdle
    /\ IntIdle /\ NestIdle /\ IterIdle /\ FpIdle /\ SortIdle

IndexedMerged(res) ==
    idx_out' = [called |-> TRUE, ok |-> res.ok,
                layer |-> IF res.ok THEN IndexedMergerDone(res) ELSE NoLayer]

CallIndexedMerge ==
    /\ ~idx_out.called
    /\ IndexedMerged(IndexedMergerWork(IndexedMergerNew, idx1, idx2, overflow_checks))
    /\ UNCHANGED <<overflow_checks, idx1, idx2, spineAll, leafVars, advVars, bldVars,
                   curVars, workVars, intVars, nestVars, iterVars, fpVars, sortVars>>

NextIndexed == CallIndexedMerge

SpecIndexed == InitIndexed /\ [][NextIndexed]_vars

\* the (value, weight) entries of key k in layer l
EntriesOf(l, k) ==
    {l.vals[j] : j \in {j \in 1..Len(l.vals) :
        \E i \in 1..Len(l.keys) : l.keys[i] = k /\ l.offs[i] < j /\ j <= l.offs[i + 1]}}

\* key k is in both layers and every value of it cancels
CancelsCompletely(a, b, k) ==
    /\ EntriesOf(a, k) # {} /\ EntriesOf(b, k) # {}
    /\ \A e \in EntriesOf(a, k) : <<e[1], 0 - e[2]>> \in EntriesOf(b, k)
    /\ \A e \in EntriesOf(b, k) : <<e[1], 0 - e[2]>> \in EntriesOf(a, k)

\* the invariants of a layer: keys strictly ascending, offsets from 0 to
\* the number of leaf tuples, non-decreasing, no key without an entry
LayerSound(l) ==
    /\ \A i \in 1..(Len(l.keys) - 1) : l.keys[i] < l.keys[i + 1]
    /\ Len(l.offs) = Len(l.keys) + 1
    /\ l.offs[1] = 0 /\ l.offs[Len(l.offs)] = Len(l.vals)
    /\ \A i \in 1..Len(l.keys) : l.offs[i] < l.offs[i + 1]

MergedLayerRight ==
    /\ LayerSound(idx_out.layer)
    /\ \A i \in 1..Len(idx1.keys) :
          CancelsCompletely(idx1, idx2, idx1.keys[i]) =>
              \A j \in 1..Len(idx_out.layer.keys) : idx_out.layer.keys[j] # idx1.keys[i]

\* C33: the merger's work and done yield a layer in which a key of both
\* inputs whose values cancel completely is absent, every key has at least
\* one entry, keys are strictly ascending and the offsets run non-decreasing
\* from 0 to the number of leaf tuples.
C33_IndexedMergeKeepsLayerSound ==
    idx_out.called => idx_out.ok /\ MergedLayerRight

\* whenever the merger returns, the layer is as C33 says
IndexedMergeRightWhenReturns ==
    idx_out.called /\ idx_out.ok => MergedLayerRight

\* the merger returns unless the build checks overflow and one key holds a
\* run of values long enough for the overflowing probe of advance
IndexedMergePanicsOnlyOnLongRun ==
    idx_out.called /\ ~idx_out.ok =>
        overflow_checks /\ (Len(idx1.vals) >= LongSliceLen \/ Len(idx2.vals) >= LongSliceLen)

\* a merge that dropped a key whose values cancelled and kept a key of
\* which one value cancelled
IndexedMergeCancelled ==
    /\ idx_out.called /\ idx_out.ok
    /\ \E i \in 1..Len(idx1.keys) : CancelsCompletely(idx1, idx2, idx1.keys[i])
    /\ \E j \in 1..Len(idx_out.layer.keys) :
          /\ Cardinality(EntriesOf(idx1, idx_out.layer.keys[j])) = 2
          /\ Cardinality(EntriesOf(idx2, idx_out.layer.keys[j])) = 2
          /\ Cardinality(EntriesOf(idx_out.layer, idx_out.layer.keys[j])) = 1

(***************************************************************************)
(* SpecWake: a Spine that holds an activator, under insert, exert and      *)
(* recede_to; the last operation is recorded, and `activated` counts the   *)
(* activate() calls it made.                                               *)
(***************************************************************************)
InitWake ==
    /\ overflow_checks \in BOOLEAN
    /\ \E arg \in 1..MaxEffort : Constructed(arg, TRUE)
    /\ last_op = "new"
    /\ steps = StepsOff
    /\ Fresh

InsertWake == InsertFrom(Batches, MaxWakeInserts)

NextWake ==
    \/ InsertWake
    \/ Exert
    \/ RecedeTo

SpecWake == InitWake /\ [][NextWake]_vars

Reduced(ms) == reduced([merging |-> ms])

\* exert called on a reduced spine makes no activate() call
ExertOnReducedIsQuiet ==
    last_op' = "exert" /\ Reduced(merging) => activated' = 0

ExertWokeAgain ==
    /\ last_op = "exert" /\ panic = ""
    /\ ~Reduced(merging)
    /\ activated >= 1

\* an exert that found the spine reduced
ExertFoundReduced ==
    /\ last_op = "exert" /\ panic = ""
    /\ Reduced(merging) /\ activated = 0 /\ inserts >= 2

\* an empty batch inserted into a spine that is not reduced
EmptyInsertedUnreduced ==
    /\ last_op = "insert_empty" /\ panic = ""
    /\ ~Reduced(merging)

(***************************************************************************)
(* The cached batch vector of Spine::cursor (SpecTrace).                   *)
(***************************************************************************)
\* the operations that change slots
Mutating == {"insert", "insert_empty", "exert", "recede_to", "recede_to, merging",
             "consolidate"}

\* the batches of a slot that hold tuples: batch1 before batch2
NonEmptyIn(m) ==
    SelectSeq(IF m.tag = "Double" /\ m.variant = "InProgress" THEN <<m.batch1, m.batch2>>
              ELSE IF m.tag # "Vacant" /\ m.batch.some THEN <<m.batch.vals>>
              ELSE <<>>,
              LAMBDA b : Len(b) > 0)

\* the non-empty batches of the levels from..top, the highest level first
RECURSIVE FromTop(_, _)
FromTop(ms, from) ==
    IF from > Len(ms) THEN <<>> ELSE FromTop(ms, from + 1) \o NonEmptyIn(ms[from])

\* C35: every mutating operation (insert, also of an empty batch, exert,
\* recede_to, consolidate) leaves cursor_storage empty; a non-empty
\* cursor_storage is what the last cursor() call gathered, no mutation
\* since, and holds exactly the non-empty batches of the spine, the highest
\* level first and batch1 before batch2 of a merge in progress.
C35_CursorStorageClearedByMutation ==
    /\ last_op \in Mutating => cursor_storage = <<>>
    /\ last_op = "cursor" => cursor_storage = FromTop(merging, 1)
    /\ cursor_storage # <<>> => cursor_storage = FromTop(merging, 1)
    /\ cursor_storage # <<>> => last_op \in {"cursor", "clear_dirty_flag"}

\* Witnesses of C35: cursor() gathered both inputs of a merge in progress
C35_Witness ==
    /\ last_op = "cursor"
    /\ Len(cursor_storage) = 2
    /\ \E i \in 1..Len(merging) : is_inprogress(merging[i])

\* an empty batch was inserted after cursor(): the vector is empty again
EmptyInsertClearedStorage ==
    /\ last_op = "insert_empty"
    /\ cursor_storage = <<>>
    /\ FromTop(merging, 1) # <<>>


(***************************************************************************)
(* SpecFuel: the Spine under insert and direct calls of the public         *)
(* apply_fuel with any fuel an isize can hold, negative and zero included; *)
(* the calls of work and the returns of apply_fuel are logged.             *)
(***************************************************************************)
InitFuel ==
    /\ overflow_checks \in BOOLEAN
    /\ \E arg \in 1..MaxEffort : Constructed(arg, FALSE)
    /\ last_op = "off"
    /\ steps = StepsFuel
    /\ Fresh

InsertFuel == InsertFrom(Batches, MaxFuelInserts)

\* spine.apply_fuel(&mut fuel), called from outside
ApplyFuel ==
    \E fuel \in WorkFuels :
        /\ Live
        /\ SpineLeft(apply_fuel(Self, fuel, overflow_checks))
        /\ held' = Staled(held)
        /\ UNCHANGED <<overflow_checks, effort, inserted, phase, inserts, result,
                       self_lower, self_upper, dirty, activator, effort_arg,
                       nonempty_since, rounds, seen, notSpine, cursor_storage,
                       last_op>>

NextFuel ==
    \/ InsertFuel
    \/ ApplyFuel

SpecFuel == InitFuel /\ [][NextFuel]_vars

\* the call of work logged at position i was handed a merge in progress that
\* no call of work had touched, and left the slot Complete
WorkedOnce(i) ==
    /\ is_double(steps.log[i].a)
    /\ is_inprogress(steps.log[i].a) => steps.log[i].a.merger = MergerNew
    /\ is_complete(steps.log[i].b)

\* C36: every call of work on a merge in progress returns and leaves the
\* slot Complete, for every fuel on entry (zero and negative included): no
\* merge stays in progress across a call, Merger::work runs once per merger,
\* and no Double slot remains when apply_fuel returns.
C36_WorkAlwaysCompletes ==
    /\ panic = ""
    /\ \A i \in Calls("worked") : WorkedOnce(i)
    /\ \A i \in Calls("apply_fuel returns") : ~AnyDouble(steps.log[i].b)

\* Whenever work returns, the slot is Complete and the merger was worked
\* once; whenever apply_fuel returns, no Double is left.
WorkCompletesWhenReturns ==
    /\ \A i \in Calls("worked") : WorkedOnce(i)
    /\ \A i \in Calls("apply_fuel returns") : ~AnyDouble(steps.log[i].b)

\* apply_fuel panics only in a build with overflow checks, in the
\* subtraction, on fuel within a merge's charge of isize::MIN.
ApplyFuelPanicsOnlyAtIsizeMin ==
    panic # "" =>
        /\ overflow_checks
        /\ panic = PanicSub
        /\ steps.log[1].op = "apply_fuel"
        /\ steps.log[1].a.min

\* work has completed a merge on fuel that was zero or negative
WorkedOnNoFuel ==
    /\ panic = ""
    /\ Calls("worked") # {}
    /\ steps.log[1].op = "apply_fuel"
    /\ ~FuelPositive(steps.log[1].a)
    /\ \E i \in Calls("worked") : is_inprogress(steps.log[i].a)

\* apply_fuel has promoted a completed merge into a Single, begun the merge
\* there and completed that one too
WorkedTwoLevels ==
    /\ panic = ""
    /\ Cardinality({i \in Calls("worked") : is_inprogress(steps.log[i].a)}) >= 2
    /\ Calls("apply_fuel returns") # {}


(***************************************************************************)
(* SpecIntroduce: the Spine under insert, exert and consolidate, with the  *)
(* calls of introduce_batch logged: the level and the fuel computed.       *)
(***************************************************************************)
InitIntroduce ==
    /\ overflow_checks \in BOOLEAN
    /\ \E arg \in 1..MaxEffort : Constructed(arg, FALSE)
    /\ last_op = "off"
    /\ steps = StepsIntroduce
    /\ Fresh

NextIntroduce ==
    \/ Insert
    \/ Exert
    \/ Consolidate

SpecIntroduce == InitIntroduce /\ [][NextIntroduce]_vars

\* 8 * 2^level * eff fits an isize (is below 2^63)
FitsIsize(level, eff) == level + 3 + NextPowerOfTwoLog(eff + 1) <= UsizeBits - 1

\* fuel is 8 * 2^level * eff, as an isize
FuelExact(level, eff, fuel) ==
    /\ FitsIsize(level, eff)
    /\ fuel = Fuel(8 * Pow2(level) * eff)
    /\ FuelPositive(fuel)

\* C37: in every introduce_batch call reached through insert, exert and
\* consolidate the fuel computed is 8 * 2^level * effort: it never wraps to
\* zero or to a negative value.
C37_IntroduceFuelNeverWraps ==
    \A i \in Calls("introduce_batch") :
        FuelExact(steps.log[i].index, effort, steps.log[i].b)

\* At the levels insert and exert with small fuel reach, the fuel is exact.
IntroduceFuelExactAtLowLevels ==
    \A i \in Calls("introduce_batch") :
        steps.log[i].index < UsizeBits - 1 =>
            FuelExact(steps.log[i].index, effort, steps.log[i].b)

\* Level 63 is reached from consolidate only, and there the fuel is 0.
IntroduceFuelZeroAtTopLevel ==
    \A i \in Calls("introduce_batch") :
        steps.log[i].index >= UsizeBits - 1 =>
            /\ steps.log[i].index = UsizeBits - 1
            /\ steps.log[i].b = Fuel(0)
            /\ phase = "consolidated"

\* consolidate has introduced an empty batch at level 63 and returned
ConsolidateIntroducedAtTop ==
    /\ phase = "consolidated" /\ panic = ""
    /\ \E i \in Calls("introduce_batch") : steps.log[i].index = UsizeBits - 1

\* insert has introduced a batch above level 0
InsertIntroducedAbove ==
    /\ phase = "live"
    /\ \E i \in Calls("introduce_batch") :
           steps.log[i].index > 0 /\ steps.log[i].a # None


(***************************************************************************)
(* The shift amounts of advance's growing loop (SpecAdvance).              *)
(***************************************************************************)
\* the values of step with which `step <<= step` was executed: every probed
\* step but the one at the test that ended the loop; the last of them is
\* the shift that panicked where advance did not return
Shifts ==
    IF adv_out.ok THEN SubSeq(adv_out.grown, 1, Len(adv_out.grown) - 1)
    ELSE adv_out.grown

\* C38: for every slice length and every monotone-false predicate each
\* execution of `step <<= step` in advance shifts by fewer bits than the
\* width of usize, also where the satisfying prefix is longer than 2068
\* elements, and advance returns.
C38_AdvanceShiftsBelowWidth ==
    adv_out.called =>
        /\ adv_out.ok
        /\ \A i \in 1..Len(Shifts) : Shifts[i] < UsizeBits

\* A shift by the width or more happens only where the prefix is longer
\* than 2068 elements, and then in every build.
ShiftOverflowsFromLongPrefixOn ==
    adv_out.called =>
        ((\E i \in 1..Len(Shifts) : Shifts[i] >= UsizeBits)
            <=> prefix_len >= LongSliceLen)

\* a build without overflow checks has shifted by 2048 bits and returned
ShiftWrappedUnchecked ==
    /\ adv_out.called /\ adv_out.ok /\ ~overflow_checks
    /\ \E i \in 1..Len(Shifts) : Shifts[i] = 2048

\* a build with overflow checks has panicked in the shift by 2048 bits
ShiftPanickedChecked ==
    /\ adv_out.called /\ ~adv_out.ok /\ overflow_checks
    /\ Shifts[Len(Shifts)] = 2048


(***************************************************************************)
(* SpecPush: OrderedLeafBuilder::push_merge on a fresh builder, over two   *)
(* drawn leaves and a cursor range of each; the iterations of its loop are *)
(* recorded.                                                               *)
(***************************************************************************)
\* History: one iteration of push_merge's loop: the arm of the match, both
\* lower bounds when it began, the entries it moved its own lower bound by
\* (`step`; 1 in the Equal arm), and whether it ran to its end.
Iteration(arm, lower1, lower2, moved, ok) ==
    [arm |-> arm, lower1 |-> lower1, lower2 |-> lower2, step |-> moved, ok |-> ok]

\* History: the iterations of
\*     while lower1 < upper1 && lower2 < upper2 { match key1.cmp(key2) .. }
\* in turn; a is the outcome of the arm's call of advance.
RECURSIVE PushMergeTrail(_, _, _, _, _, _, _)
TrailLess(a, trie1, lower1, upper1, trie2, lower2, upper2, checks) ==
    IF ~a.ok THEN <<Iteration("Less", lower1, lower2, 0, FALSE)>>
    ELSE <<Iteration("Less", lower1, lower2, Min(1 + a.n, RunCopyCap), TRUE)>>
         \o PushMergeTrail(trie1, lower1 + Min(1 + a.n, RunCopyCap), upper1,
                           trie2, lower2, upper2, checks)

TrailGreater(a, trie1, lower1, upper1, trie2, lower2, upper2, checks) ==
    IF ~a.ok THEN <<Iteration("Greater", lower1, lower2, 0, FALSE)>>
    ELSE <<Iteration("Greater", lower1, lower2, Min(1 + a.n, RunCopyCap), TRUE)>>
         \o PushMergeTrail(trie1, lower1, upper1,
                           trie2, lower2 + Min(1 + a.n, RunCopyCap), upper2, checks)

PushMergeTrail(trie1, lower1, upper1, trie2, lower2, upper2, checks) ==
    IF lower1 < upper1 /\ lower2 < upper2
    THEN IF Key(trie1[lower1 + 1]) < Key(trie2[lower2 + 1])
         THEN TrailLess(Advance(LessThanKey(Slice(trie1, 1 + lower1, upper1),
                                            Key(trie2[lower2 + 1])), checks),
                        trie1, lower1, upper1, trie2, lower2, upper2, checks)
         ELSE IF Key(trie1[lower1 + 1]) = Key(trie2[lower2 + 1])
         THEN <<Iteration("Equal", lower1, lower2, 1, TRUE)>>
              \o PushMergeTrail(trie1, lower1 + 1, upper1,
                                trie2, lower2 + 1, upper2, checks)
         ELSE TrailGreater(Advance(LessThanKey(Slice(trie2, 1 + lower2, upper2),
                                               Key(trie1[lower1 + 1])), checks),
                           trie1, lower1, upper1, trie2, lower2, upper2, checks)
    ELSE <<>>

InitPush ==
    /\ overflow_checks \in BOOLEAN
    /\ \E pair \in (SealedLeaves \X SealedLeaves) \cup LongPairs :
           leaf1 = pair[1] /\ leaf2 = pair[2]
    /\ leaf3 = <<>>
    /\ leaf_op = ""
    /\ leaf_out = NoOutcome
    /\ SpineIdle /\ AdvIdle /\ BldIdle /\ CurIdle /\ WorkIdle /\ CircIdle

\* builder.push_merge((&leaf1, cursor1), (&leaf2, cursor2)) on a fresh
\* builder, the cursors made by cursor_from(lower, upper)
CallPushMerge ==
    \E b1 \in CursorBounds(leaf1), b2 \in CursorBounds(leaf2) :
        LeafApply("push_merge",
                  [bounds1 |-> b1, bounds2 |-> b2,
                   trail |-> PushMergeTrail(leaf1, b1[1], b1[2],
                                            leaf2, b2[1], b2[2], overflow_checks)]
                  @@ PushMerge(<<>>, leaf1, b1[1], b1[2],
                               leaf2, b2[1], b2[2], overflow_checks))

NextPush == CallPushMerge

SpecPush == InitPush /\ [][NextPush]_vars

\* the lower bounds after the iteration it
Lower1After(it) == it.lower1 + (IF it.arm = "Greater" THEN 0 ELSE it.step)
Lower2After(it) == it.lower2 + (IF it.arm = "Less" THEN 0 ELSE it.step)

\* the iteration it of the loop ran to its end, moved lower1 + lower2 on,
\* copied a capped run in a Less or Greater arm and stayed inside both ranges
IterationRight(it) ==
    /\ it.ok
    /\ Lower1After(it) + Lower2After(it) >= it.lower1 + it.lower2 + 1
    /\ it.arm \in {"Less", "Greater"} => it.step >= 1 /\ it.step <= RunCopyCap
    /\ leaf_out.bounds1[1] <= it.lower1 /\ it.lower1 < leaf_out.bounds1[2]
    /\ leaf_out.bounds2[1] <= it.lower2 /\ it.lower2 < leaf_out.bounds2[2]
    /\ Lower1After(it) <= leaf_out.bounds1[2]
    /\ Lower2After(it) <= leaf_out.bounds2[2]

\* every iteration begins where the iteration before it ended
TrailContiguous(trail) ==
    \A i \in 1..(Len(trail) - 1) :
        /\ trail[i + 1].lower1 = Lower1After(trail[i])
        /\ trail[i + 1].lower2 = Lower2After(trail[i])

\* the tuples of the two cursor ranges
InRange1 == Slice(leaf1, leaf_out.bounds1[1], leaf_out.bounds1[2])
InRange2 == Slice(leaf2, leaf_out.bounds2[1], leaf_out.bounds2[2])

\* the builder holds the merge of the two ranges and of nothing else: every
\* key of the ranges with its summed weight, where that is not zero
OnlyRangesMerged ==
    LeafDenotes(leaf_out.vals, KeysOf(InRange1) \cup KeysOf(InRange2),
                LAMBDA k : WeightIn(InRange1, k) + WeightIn(InRange2, k))

PushMergeRight ==
    /\ \A i \in 1..Len(leaf_out.trail) : IterationRight(leaf_out.trail[i])
    /\ TrailContiguous(leaf_out.trail)
    /\ Len(leaf_out.trail) <= Len(InRange1) + Len(InRange2)
    /\ leaf_out.ok => OnlyRangesMerged

\* C39: push_merge terminates and stays inside the two cursors' ranges:
\* every iteration of its loop advances lower1 + lower2 by at least 1, a
\* Less or Greater iteration copies between 1 and 1000 consecutive entries
\* of one input, lower1 <= upper1 and lower2 <= upper2 hold throughout, and
\* nothing outside [lower, upper) of either cursor is read or copied.
C39_PushMergeStaysInRanges ==
    leaf_op = "push_merge" => leaf_out.ok /\ PushMergeRight

\* Every iteration that runs to its end is as C39 says, and so is what the
\* builder holds when push_merge returns.
PushMergeRightWhenReturns ==
    leaf_op = "push_merge" /\ leaf_out.ok => PushMergeRight

\* push_merge returns unless the build checks overflow and a run of the
\* long pair is handed to advance; then the iteration under way is the last.
PushMergePanicsOnlyOnLongRun ==
    leaf_op = "push_merge" /\ ~leaf_out.ok =>
        /\ overflow_checks
        /\ Len(leaf1) + Len(leaf2) > LongRunLen
        /\ ~leaf_out.trail[Len(leaf_out.trail)].ok
        /\ \A i \in 1..(Len(leaf_out.trail) - 1) : IterationRight(leaf_out.trail[i])

\* a run longer than the cap was copied in pieces of 1000 entries
RunCopiedInCappedPieces ==
    /\ leaf_op = "push_merge" /\ leaf_out.ok
    /\ \E i \in 1..(Len(leaf_out.trail) - 1) :
           /\ leaf_out.trail[i].step = RunCopyCap
           /\ leaf_out.trail[i + 1].arm = leaf_out.trail[i].arm

\* the arms the loop of push_merge went through
ArmsMet == {leaf_out.trail[i].arm : i \in 1..Len(leaf_out.trail)}

\* push_merge ran over proper sub-ranges of both leaves and left entries of
\* both leaves outside them
SubRangesMerged ==
    /\ leaf_op = "push_merge" /\ leaf_out.ok
    /\ leaf_out.bounds1[1] > 0 /\ leaf_out.bounds2[2] < Len(leaf2)
    /\ ArmsMet = {"Greater", "Equal"}

\* the loop of push_merge went through all three arms of the match
AllArmsMet ==
    /\ leaf_op = "push_merge" /\ leaf_out.ok
    /\ ArmsMet = {"Less", "Equal", "Greater"}


(***************************************************************************)
(* SpecDrain: the Spine (with an activator) under insert, exert and        *)
(* recede_to; from some point on the caller only calls exert, with any     *)
(* fuel 1..MaxFuel at each call (phase "draining": no further insert);     *)
(* `rounds` counts these calls.                                            *)
(***************************************************************************)
InitDrain ==
    /\ overflow_checks \in BOOLEAN
    /\ \E arg \in 1..MaxEffort : Constructed(arg, TRUE)
    /\ last_op = "off"
    /\ steps = StepsOff
    /\ Fresh

InsertDrain == InsertFrom(Batches, MaxDrainInserts)

\* spine.exert(&mut fuel) by a caller that inserts no more
ExertDrain ==
    \E fuel \in 1..MaxFuel :
        /\ phase \in {"live", "draining"}
        /\ panic = ""
        /\ rounds < MaxDrainCalls
        /\ SpineLeft(exert(Self, Fuel(fuel), effort, overflow_checks))
        /\ cursor_storage' = <<>>
        /\ phase' = "draining"
        /\ rounds' = rounds + 1
        /\ held' = Staled(held)
        /\ UNCHANGED <<overflow_checks, effort, inserted, inserts, result,
                       self_lower, self_upper, dirty, activator, effort_arg,
                       nonempty_since, seen, notSpine, last_op>>

NextDrain ==
    \/ InsertDrain
    \/ Exert
    \/ RecedeTo
    \/ ExertDrain

SpecDrain == InitDrain /\ [][NextDrain]_vars

\* exert, with whatever fuel, would leave the slots as they are and call no
\* activator
ExertRests ==
    \A fuel \in 1..MaxFuel :
        /\ exert(Self, Fuel(fuel), effort, overflow_checks).merging = merging
        /\ exert(Self, Fuel(fuel), effort, overflow_checks).acts = 0

\* the exert call of this step found the spine reduced
ExertOnReducedSpine == phase' = "draining" /\ Reduced(merging)

\* the caller has made all its exert calls
Drained == phase = "draining" /\ rounds = MaxDrainCalls

StillMergingAfterCalls ==
    /\ phase = "draining" /\ rounds >= 4
    /\ ~Reduced(merging)

\* exert has found a reduced spine whose batch tidy_layers still moves
ExertTidiedReduced ==
    /\ phase = "draining" /\ Reduced(merging) /\ ~ExertRests

====
